---- MODULE Spec2Model ----
(***************************************************************************)
(* Verification model of the Dynamic Table plugin for Obsidian.            *)
(*                                                                         *)
(* Part I   : callout checkbox sync (memCache, writeQueue, saveBool, the   *)
(*            markdown post-processor of registerCalloutCheckboxSync).     *)
(* Part II  : the vault, the _checkbox-states store of the dynamic tables, *)
(*            the row pipeline of useDynamicTablesState, the render effect *)
(*            of DynamicTables and the rename / delete handlers.           *)
(* Part III : a table and its YAML block in the markdown post-processor.   *)
(* Part IV  : the TableManager on the text of a document, inline edits.    *)
(* Part V   : extractValue on one cell.                                    *)
(* Part VI  : CheckboxStateManager, the JSON file of a note.               *)
(* Part VII : queueWrite as a chain of promises.                           *)
(* Part VIII: the PaginationView and the pagination it changes.            *)
(* Part IX  : the dynamic tables of one document in the DOM.               *)
(* Part X   : the rows memo over a table whose rows are edited.            *)
(* Part XI  : tables mounted one after the other in one session.           *)
(***************************************************************************)
EXTENDS Integers, Sequences, FiniteSets, TLC

(***************************************************************************)
(* Generic helpers                                                         *)
(***************************************************************************)

\* Partial maps from a subset of K to V (a JSON object / JS Record).
PMaps(K, V) == UNION {[D -> V] : D \in SUBSET K}

\* The empty object {}.
EmptyMap == <<>>

\* { ...a, ...b } : object spread, the right operand wins.
Spread(a, b) ==
  [k \in (DOMAIN a) \cup (DOMAIN b) |-> IF k \in DOMAIN b THEN b[k] ELSE a[k]]

\* obj[key] = val on a copy of obj.
Put(obj, key, val) ==
  [k \in (DOMAIN obj) \cup {key} |-> IF k = key THEN val ELSE obj[k]]

\* Remove the i-th element of a sequence.
RemoveAt(s, i) == [j \in 1..(Len(s) - 1) |-> IF j < i THEN s[j] ELSE s[j + 1]]

(***************************************************************************)
(* Part I : callout checkbox sync                                          *)
(***************************************************************************)

\* Bound on the number of queued read-modify-write cycles of one state file.
MaxQueue == 2

\* The checkbox keys ("id:<id>") of the callout inputs of the note.
Keys == {"id:a", "id:b"}

\* Document order of the inputs of a section.
KeyOrder == <<"id:a", "id:b">>

\* input.checked of a freshly rendered <input type="checkbox" id=...>: the
\* markup carries no checked attribute.
DomDefault == FALSE

VARIABLES
  dirExists,    \* the _checkbox-states directory exists
  memCache,     \* memCache.get(note.path): key -> boolean
  calloutFile,  \* parsed content of _checkbox-states/<basename>.json
  writeQueue,   \* the promise chain of writeQueue.get(p): pending cycles
  pass,         \* the post-processor call in flight (awaiting loadStates)
  dom,          \* checked state of the bound inputs currently displayed
  issued,       \* history: key -> value of the last saveBool call issued
  toggled,      \* history: key -> value of the last user toggle
  fresh         \* history: keys toggled before the displayed pass started

calloutVars ==
  <<dirExists, memCache, calloutFile, writeQueue, pass, dom, issued, toggled, fresh>>

\* State of Part II: the vault, the store and the mounted dynamic tables.
VARIABLES
  basename,        \* file.basename of every note
  noteExists,      \* the note is in the vault
  files,           \* _checkbox-states/<name>.json for every base name
  pc,              \* per table: "unmounted", "render" (the rows memo is due),
                   \* "effect" (the render effect is due), "idle", "crashed"
  filteringOf,       \* per table: the active filter expressions
  searchOf, \* per table: the debounced search term ("" for null)
  sortingOf,         \* per table: the sort directive (NoSorting for null)
  paginationOf,      \* per table: page number and page size
  rowsOf,            \* per table: the rows the memo returned
  totalOf,           \* per table: totalNumberOfUnpaginatedRows
  statesOf,  \* per table: the object the render effect loaded
  fileNameOf,        \* per table: the base name the render effect captured
  shownOf,           \* per table: displayed rows with their checkboxes
  boxToggled,      \* history: id -> value of the last toggle of the box
  staleWrite       \* history: a box was toggled in a view rendered under
                   \* another name than the note carries now

tableVars ==
  <<basename, noteExists, files, pc, filteringOf, searchOf, sortingOf, paginationOf,
    rowsOf, totalOf, statesOf, fileNameOf, shownOf, boxToggled, staleWrite>>

viewVars == <<filteringOf, searchOf, sortingOf, paginationOf>>

\* State of the search box of every table and of its debounce timer.
VARIABLES
  searchingOf,     \* per table: the search term as typed ("" for null)
  timerOf,         \* per table: <<>> or <<term>>, the term the pending timer
                   \* of the debounce will hand over
  ranWith          \* history, per table: the search term of the last run of
                   \* the rows memo

debounceVars == <<searchingOf, timerOf, ranWith>>

\* A markdown document under the TableManager and the inline editors.
VARIABLES
  doc,             \* the content of the document: its lines
  hiddenCols,      \* the columns of its table configured hidden
  tmCall,          \* the last call: operation, arguments, content before
  tmOut            \* what the last call returned

docVars == <<doc, hiddenCols, tmCall, tmOut>>

\* A table with its configuration block on its way through the
\* post-processor.
VARIABLES
  blockOf,         \* the YAML block and the data of the table
  mountOf          \* how far the post-processor and the mount have come

mountVars == <<blockOf, mountOf>>

\* One cell of a table on its way through extractValue.
VARIABLES
  rawCell,         \* the raw content of the cell and the type of its column
  extracted        \* what extractValue returned for it

extractVars == <<rawCell, extracted>>

\* The calls of CheckboxStateManager.saveState in flight on one note.
VARIABLES
  stateJson,       \* the JSON file of the note under data/states
  saveCalls        \* per call: its arguments, how far it is, its local data

saveVars == <<stateJson, saveCalls>>

\* The promise chain queueWrite keeps for one state file, with writes that
\* can fail.
VARIABLES
  links,           \* the promises queueWrite returned, oldest first
  chainFile        \* the parsed content of the state file

chainVars == <<links, chainFile>>

\* The pagination of a mounted table and the rows it is over.
VARIABLES
  pager            \* page number, page size and the number of unpaginated rows

pagerVars == <<pager>>

\* Where the dynamic table of the document stands among its tables.
VARIABLES
  dynTableAt       \* the number of markdown tables of the document before it

layoutVars == <<dynTableAt>>

\* The dynamic tables of one rendered document and what the post-processor
\* and the mount have left of them in the DOM.
VARIABLES
  stageOf,         \* per table: "new", "context" (getMountContext answered),
                   \* "mounted"
  hideOf,          \* per table: its configuration sets hide-configuration
  marked,          \* the tables whose configuration element is in the DOM and
                   \* carries the configuration attribute
  indexOf,         \* per table: <<>> or <<indexOfTheDynamicTable>>
  rootOf           \* per table: <<>> or <<the render attribute of its root div>>

domVars == <<stageOf, hideOf, marked, indexOf, rootOf>>

\* A dynamic table whose rows are edited in the source of the note.
VARIABLES
  sourceRows,      \* the rows of the table in the document (tableData.rows)
  memoFile,        \* the state file of the note
  memoRows,        \* the rows the last run of the rows memo returned
  memoStale        \* the source was edited since the last run

sourceVars == <<sourceRows, memoFile, memoRows, memoStale>>

\* The array DEFAULT_PAGES_SIZE_OPTIONS of the module and the tables mounted
\* one after the other.
VARIABLES
  defaultOptions,  \* the elements of the array as it stands
  mountedPages     \* history: per mount, the configuration and the pagination
                   \* the useState initialiser returned

optionVars == <<defaultOptions, mountedPages>>

extraVars == <<extractVars, saveVars, chainVars, pagerVars, layoutVars, domVars, sourceVars, optionVars>>

coreVars == <<calloutVars, tableVars, debounceVars, docVars, mountVars>>

\* What the steps of Part V, VI and VII leave alone.
extractRest == <<coreVars, saveVars, chainVars, pagerVars, layoutVars, domVars, sourceVars, optionVars>>
saveRest == <<coreVars, extractVars, chainVars, pagerVars, layoutVars, domVars, sourceVars, optionVars>>
chainRest == <<coreVars, extractVars, saveVars, pagerVars, layoutVars, domVars, sourceVars, optionVars>>
pagerRest == <<coreVars, extractVars, saveVars, chainVars, layoutVars, domVars, sourceVars, optionVars>>
layoutRest == <<coreVars, extractVars, saveVars, chainVars, pagerVars, domVars, sourceVars, optionVars>>
domRest == <<coreVars, extractVars, saveVars, chainVars, pagerVars, layoutVars, sourceVars, optionVars>>
sourceRest == <<coreVars, extractVars, saveVars, chainVars, pagerVars, layoutVars, domVars, optionVars>>
optionRest == <<coreVars, extractVars, saveVars, chainVars, pagerVars, layoutVars, domVars, sourceVars>>

unitVars == <<docVars, mountVars, extraVars>>

vars == <<calloutVars, tableVars, debounceVars, docVars, mountVars, extraVars>>

NoPass == [phase |-> "none", inputs |-> EmptyMap, saved |-> EmptyMap, during |-> {}]

\* readJson(p): the parsed file, {} when it does not exist.
readJson(file) == file

\* loadStates: readJson and keep the boolean entries.
loadStates(file) == readJson(file)

\* A queue that does not chain: every pending cycle may run at once.
queueWrite_unchained(i) == TRUE

\* queueWrite: fn runs when the previous promise of the chain has settled,
\* i.e. only the oldest pending cycle of the file may run.
queueWrite(i) == i = 1

\* saveBool, lines 55-61: the cache takes the value immediately.
saveBoolCache(cache, key, val) == Put(cache, key, val)

\* saveBool, lines 63-68: the read-modify-write cycle handed to queueWrite.
saveBoolJob(key, val) == [key |-> key, val |-> val, phase |-> "queued", data |-> EmptyMap]

\* The keys of a pass's inputs, in document order.
RECURSIVE InputSeq(_, _)
InputSeq(ks, i) ==
  IF i > Len(KeyOrder) THEN <<>>
  ELSE (IF KeyOrder[i] \in ks THEN <<KeyOrder[i]>> ELSE <<>>) \o InputSeq(ks, i + 1)

\* The post-processor up to its first await (lines 98-122): step 1 hydrates
\* the new inputs from memCache, then loadStates is awaited.
PassStart(ks) ==
  /\ pass.phase = "none"
  /\ ks # {}
  /\ pass' = [phase |-> "loading",
              inputs |-> [k \in ks |-> IF k \in DOMAIN memCache THEN memCache[k] ELSE DomDefault],
              saved |-> EmptyMap,
              during |-> {}]
  /\ UNCHANGED <<dirExists, memCache, calloutFile, writeQueue, dom, issued, toggled, fresh>>
  /\ UNCHANGED <<tableVars, debounceVars, unitVars>>

\* loadStates: ensureStatesDir creates the directory, readJson reads the file.
PassLoad ==
  /\ pass.phase = "loading"
  /\ dirExists' = TRUE
  /\ pass' = [pass EXCEPT !.phase = "loaded", !.saved = loadStates(calloutFile)]
  /\ UNCHANGED <<memCache, calloutFile, writeQueue, dom, issued, toggled, fresh>>
  /\ UNCHANGED <<tableVars, debounceVars, unitVars>>

\* Sequence of the default saveBool jobs of a pass: inputs without saved entry.
RECURSIVE DefaultJobs(_, _, _)
DefaultJobs(ks, inputs, saved) ==
  IF ks = <<>> THEN <<>>
  ELSE (IF Head(ks) \in DOMAIN saved THEN <<>>
        ELSE <<saveBoolJob(Head(ks), inputs[Head(ks)])>>)
       \o DefaultJobs(Tail(ks), inputs, saved)

RECURSIVE ApplyJobsToCache(_, _)
ApplyJobsToCache(cache, jobs) ==
  IF jobs = <<>> THEN cache
  ELSE ApplyJobsToCache(saveBoolCache(cache, Head(jobs).key, Head(jobs).val), Tail(jobs))

\* Line 123: memCache.set(noteKey, {...memCache.get(noteKey), ...saved}).
HydrateCache(cache, saved) == Spread(cache, saved)

\* The post-processor after loadStates resolved (lines 123-154).
PassFinish ==
  /\ pass.phase = "loaded"
  /\ LET ks     == InputSeq(DOMAIN pass.inputs, 1)
         jobs   == DefaultJobs(ks, pass.inputs, pass.saved)
         shown  == [k \in DOMAIN pass.inputs |->
                      IF k \in DOMAIN pass.saved THEN pass.saved[k] ELSE pass.inputs[k]]
     IN /\ Len(writeQueue) + Len(jobs) <= MaxQueue
        /\ dirExists
        /\ memCache' = ApplyJobsToCache(HydrateCache(memCache, pass.saved), jobs)
        /\ writeQueue' = writeQueue \o jobs
        /\ dom' = shown
        /\ issued' = ApplyJobsToCache(issued, jobs)
        /\ fresh' = ((DOMAIN toggled) \ pass.during) \cap DOMAIN shown
  /\ pass' = NoPass
  /\ UNCHANGED <<dirExists, calloutFile, toggled>>
  /\ UNCHANGED <<tableVars, debounceVars, unitVars>>

\* The change listener of a bound input (lines 149-153): the user flips the
\* box and saveBool is called with the new value.
Toggle(k) ==
  /\ k \in DOMAIN dom
  /\ Len(writeQueue) < MaxQueue
  /\ dirExists
  /\ LET val == ~dom[k]
     IN /\ dom' = [dom EXCEPT ![k] = val]
        /\ memCache' = saveBoolCache(memCache, k, val)
        /\ writeQueue' = Append(writeQueue, saveBoolJob(k, val))
        /\ issued' = Put(issued, k, val)
        /\ toggled' = Put(toggled, k, val)
  /\ pass' = IF pass.phase = "none" THEN pass
             ELSE [pass EXCEPT !.during = @ \cup {k}]
  /\ UNCHANGED <<dirExists, calloutFile, fresh>>
  /\ UNCHANGED <<tableVars, debounceVars, unitVars>>

\* The queued cycle, line 64: const data = await readJson(p).
JobRead(i) ==
  /\ i \in 1..Len(writeQueue)
  /\ queueWrite(i)
  /\ writeQueue[i].phase = "queued"
  /\ writeQueue' = [writeQueue EXCEPT ![i].phase = "read", ![i].data = readJson(calloutFile)]
  /\ UNCHANGED <<dirExists, memCache, calloutFile, pass, dom, issued, toggled, fresh>>
  /\ UNCHANGED <<tableVars, debounceVars, unitVars>>

\* The queued cycle, lines 66-67: data[key] = val; writeFile(p, data).
JobWrite(i) ==
  /\ i \in 1..Len(writeQueue)
  /\ writeQueue[i].phase = "read"
  /\ calloutFile' = Put(writeQueue[i].data, writeQueue[i].key, writeQueue[i].val)
  /\ writeQueue' = RemoveAt(writeQueue, i)
  /\ UNCHANGED <<dirExists, memCache, pass, dom, issued, toggled, fresh>>
  /\ UNCHANGED <<tableVars, debounceVars, unitVars>>

(***************************************************************************)
(* Part II : strings and cell values                                       *)
(***************************************************************************)

\* Strings are sequences of one-character strings.
STrue  == <<"t", "r", "u", "e">>
SFalse == <<"f", "a", "l", "s", "e">>
SAl    == <<"A", "l">>
Sal    == <<"a", "l">>
Sbob   == <<"b", "o", "b">>
SEmpty == <<>>

\* String.prototype.includes: sub occurs in s as a contiguous substring.
Includes(s, sub) ==
  \E i \in 0..(Len(s) - Len(sub)) : SubSeq(s, i + 1, i + Len(sub)) = sub

\* toLowerCase on one character.
LowerChar(c) == IF c = "A" THEN "a" ELSE IF c = "B" THEN "b" ELSE c

\* String.prototype.toLowerCase.
ToLowerCase(s) == [i \in 1..Len(s) |-> LowerChar(s[i])]

\* String.prototype.trim (only blanks occur as white space).
RECURSIVE TrimLeft(_)
TrimLeft(s) == IF s # <<>> /\ Head(s) = " " THEN TrimLeft(Tail(s)) ELSE s
RECURSIVE TrimRight(_)
TrimRight(s) ==
  IF s # <<>> /\ s[Len(s)] = " " THEN TrimRight(SubSeq(s, 1, Len(s) - 1)) ELSE s
Trim(s) == TrimRight(TrimLeft(s))

\* Array.prototype.join(' ') of a sequence of strings.
RECURSIVE Join(_)
Join(ss) ==
  IF ss = <<>> THEN <<>>
  ELSE IF Len(ss) = 1 THEN ss[1]
  ELSE ss[1] \o <<" ">> \o Join(Tail(ss))

\* JavaScript values met in a row: strings, null, undefined, and the helper
\* object the filter proxy hands out in place of a string.
StrV(s)    == [t |-> "str", s |-> s]
HelperV(s) == [t |-> "helper", s |-> s]
NullV      == [t |-> "null"]
UndefV     == [t |-> "undef"]
DateV(n)   == [t |-> "date", n |-> n]

\* Collation rank of a character for localeCompare: blanks and punctuation
\* first, then letters in alphabetical order regardless of case.
CharRank(c) ==
  CASE c \in {" ", "<", ">"} -> 0
    [] LowerChar(c) = "a" -> 1
    [] LowerChar(c) = "b" -> 2
    [] LowerChar(c) = "e" -> 3
    [] LowerChar(c) = "f" -> 4
    [] LowerChar(c) = "l" -> 5
    [] LowerChar(c) = "o" -> 6
    [] LowerChar(c) = "r" -> 7
    [] LowerChar(c) = "s" -> 8
    [] LowerChar(c) = "t" -> 9
    [] LowerChar(c) = "u" -> 10
    [] OTHER -> 11

\* Lexicographic comparison of two sequences of weights: -1, 0 or 1.
RECURSIVE CompareSeq(_, _)
CompareSeq(a, b) ==
  IF a = <<>> /\ b = <<>> THEN 0
  ELSE IF a = <<>> THEN -1
  ELSE IF b = <<>> THEN 1
  ELSE IF Head(a) < Head(b) THEN -1
  ELSE IF Head(a) > Head(b) THEN 1
  ELSE CompareSeq(Tail(a), Tail(b))

\* Tertiary weight: a lower-case letter sorts before its upper-case form.
CaseRank(c) == IF LowerChar(c) = c THEN 0 ELSE 1

\* String.prototype.localeCompare.
LocaleCompare(a, b) ==
  LET primary == CompareSeq([i \in 1..Len(a) |-> CharRank(a[i])],
                            [i \in 1..Len(b) |-> CharRank(b[i])])
  IN IF primary # 0 THEN primary
     ELSE CompareSeq([i \in 1..Len(a) |-> CaseRank(a[i])],
                     [i \in 1..Len(b) |-> CaseRank(b[i])])

NumV(n)  == [t |-> "num", n |-> n]
NaNV     == [t |-> "nan"]
BoolV(b) == [t |-> "bool", b |-> b]

Digits == {"0", "1", "2", "3", "4", "5", "6", "7", "8", "9"}

DigitVal(c) ==
  CASE c = "0" -> 0 [] c = "1" -> 1 [] c = "2" -> 2 [] c = "3" -> 3 [] c = "4" -> 4
    [] c = "5" -> 5 [] c = "6" -> 6 [] c = "7" -> 7 [] c = "8" -> 8 [] OTHER -> 9

(***************************************************************************)
(* Part II : the vault and the tables of the notes                         *)
(***************************************************************************)

\* Notes of the vault; note n1 lives in folder "a", note n2 in folder "b".
Notes == {"n1", "n2"}
FolderOf(n) == IF n = "n1" THEN "a" ELSE "b"

\* Base names a note can carry.
Names == {"N", "M"}

\* Mounted dynamic tables: the first, second and third table of note n1.
\* Note n2 holds no dynamic table.
Tables == {"t1", "t2", "t3"}
NoteOf(t) == "n1"

\* Identifiers of the checkboxes, and the order in which a state file lists
\* them (Object.values follows the insertion order of the keys).
Ids == {"a", "b", "c", "d"}
IdOrder == <<"a", "b", "c", "d">>

\* tableData.columns: the header cells.
Headers(t) ==
  CASE t = "t1" -> <<"Done", "Name">>
    [] t = "t4" -> <<"Age">>
    [] OTHER    -> <<"Ok">>

\* configuration.columns: the per-column configuration of the YAML block.
NoColumnConfig == [alias |-> "", type |-> "", searchable |-> FALSE, hidden |-> FALSE]
ConfigurationColumns(t) ==
  CASE t = "t1" -> [Done |-> [NoColumnConfig EXCEPT !.alias = "done"],
                    Name |-> [NoColumnConfig EXCEPT !.searchable = TRUE]]
    [] t = "t4" -> [Age |-> [NoColumnConfig EXCEPT !.type = "number"]]
    [] OTHER    -> EmptyMap

\* A cell of the markdown table: its rendered content, the id of the
\* <input type="checkbox" id=...> it holds ("" when it holds none) and whether
\* its markup contains the text 'checked'.
Cell(text, cb) == [text |-> text, cb |-> cb, checked |-> FALSE]

\* tableData.rows / the lines of the table in the document.
TableRows(t) ==
  CASE t = "t1" -> << <<Cell(<<"<", "a", ">">>, "a"), Cell(Sbob, "")>>,
                      <<Cell(<<"<", "b", ">">>, "b"), Cell(SAl, "")>>,
                      <<Cell(SEmpty, ""),             Cell(Sal, "")>> >>
    [] t = "t2" -> << <<Cell(<<"<", "c", ">">>, "c")>> >>
    [] t = "t5" -> sourceRows
    [] OTHER    -> << <<Cell(<<"<", "d", ">">>, "d")>> >>

DEFAULT_COLUMNS_TYPE == "string"

\* useDynamicTablesState: the memoized column descriptions.
indexedColumns(t) ==
  [i \in 1..Len(Headers(t)) |->
     LET columnName == Headers(t)[i]
         cfg == IF columnName \in DOMAIN ConfigurationColumns(t)
                THEN ConfigurationColumns(t)[columnName] ELSE NoColumnConfig
     IN [name       |-> columnName,
         alias      |-> IF cfg.alias # "" THEN cfg.alias ELSE columnName,
         type       |-> IF cfg.type # "" THEN cfg.type ELSE DEFAULT_COLUMNS_TYPE,
         searchable |-> cfg.searchable,
         hidden     |-> cfg.hidden,
         index      |-> i - 1]]

\* Number(rawValue) on the strings of the model.
NumberOf(raw) ==
  LET s == Trim(raw)
  IN IF s = <<>> THEN NumV(0)
     ELSE IF Len(s) = 1 /\ s[1] \in Digits THEN NumV(DigitVal(s[1]))
     ELSE IF Len(s) = 2 /\ s[1] = "-" /\ s[2] \in Digits THEN NumV(0 - DigitVal(s[2]))
     ELSE NaNV

\* moment(rawValue, dateFormat): a one-digit string stands for a text that
\* parses under the format, anything else is invalid.
MomentOf(s) ==
  IF Len(s) = 1 /\ s[1] \in Digits THEN DateV(DigitVal(s[1])) ELSE NullV

DEFAULT_BOOL_YES_INPUT == <<"1">>

extractValue(rawValue, column, yesFormat) ==
  CASE column.type = "number" -> NumberOf(rawValue)
    [] column.type = "bool" -> BoolV(rawValue = yesFormat)
    [] column.type \in {"date", "datetime", "time"} -> MomentOf(rawValue)
    [] OTHER -> StrV(rawValue)

\* value?.toString() ?? ''
ValueToString(v) ==
  CASE v.t \in {"str", "helper"} -> v.s
    [] v.t = "bool" -> IF v.b THEN STrue ELSE SFalse
    [] v.t = "num" -> <<CHOOSE c \in Digits : DigitVal(c) = v.n>>
    [] v.t = "nan" -> <<"N", "a", "N">>
    [] v.t = "date" -> <<CHOOSE c \in Digits : DigitVal(c) = v.n>>
    [] OTHER -> <<>>

(***************************************************************************)
(* Part II : the row pipeline (the rows memo of useDynamicTablesState)     *)
(***************************************************************************)

\* A persisted checkbox entry (CheckboxMeta).
CheckboxMeta(checked, rowIndex, column) ==
  [checked |-> checked, rowIndex |-> rowIndex, column |-> column]

\* The cells of row rowIdx in turn: a checkbox whose id has no entry yet gets
\* one, recorded under the header name of its column.
RECURSIVE DetectCheckboxes(_, _, _, _)
DetectCheckboxes(t, rowIdx, cellIdx, checkboxStates) ==
  IF cellIdx >= Len(Headers(t)) THEN checkboxStates
  ELSE LET cell   == TableRows(t)[rowIdx + 1][cellIdx + 1]
           column == indexedColumns(t)[cellIdx + 1]
           next   == IF cell.cb # "" /\ cell.cb \notin DOMAIN checkboxStates
                     THEN Put(checkboxStates, cell.cb,
                              CheckboxMeta(cell.checked, rowIdx, column.name))
                     ELSE checkboxStates
       IN DetectCheckboxes(t, rowIdx, cellIdx + 1, next)

\* injectIntoRow: the true/false signal of one entry merged into allCells
\* under the column recorded in the entry.
InjectOne(allCells, meta) ==
  LET colName       == meta.column
      currentValue  == IF colName \in DOMAIN allCells THEN allCells[colName] ELSE UndefV
      valueToInject == IF meta.checked THEN STrue ELSE SFalse
  IN IF currentValue.t = "str"
     THEN IF Includes(currentValue.s, valueToInject) THEN allCells
          ELSE Put(allCells, colName,
                   StrV(Trim(currentValue.s \o <<" ">> \o valueToInject)))
     ELSE Put(allCells, colName, StrV(valueToInject))

\* Object.values(checkboxStates).forEach: every entry of row rowIdx.
RECURSIVE InjectEntries(_, _, _, _)
InjectEntries(ids, checkboxStates, rowIdx, allCells) ==
  IF ids = <<>> THEN allCells
  ELSE LET id == Head(ids)
       IN IF id \in DOMAIN checkboxStates /\ checkboxStates[id].rowIndex = rowIdx
          THEN InjectEntries(Tail(ids), checkboxStates, rowIdx,
                             InjectOne(allCells, checkboxStates[id]))
          ELSE InjectEntries(Tail(ids), checkboxStates, rowIdx, allCells)

\* Object.fromEntries(orderedCells.map(c => [alias, value])).
AllCellsOf(t, rowIdx) ==
  LET cols == indexedColumns(t)
      aliases == {cols[i].alias : i \in 1..Len(cols)}
  IN [a \in aliases |->
        LET i == CHOOSE j \in 1..Len(cols) :
                   cols[j].alias = a /\ \A k \in (j + 1)..Len(cols) : cols[k].alias # a
        IN extractValue(TableRows(t)[rowIdx + 1][i].text, cols[i], DEFAULT_BOOL_YES_INPUT)]

\* The strings of the searchable cells, in column order.
RECURSIVE SearchParts(_, _, _)
SearchParts(t, allCells, i) ==
  IF i > Len(Headers(t)) THEN <<>>
  ELSE LET column == indexedColumns(t)[i]
       IN (IF column.searchable
           THEN <<ToLowerCase(ValueToString(allCells[column.alias]))>> ELSE <<>>)
          \o SearchParts(t, allCells, i + 1)

\* One row of the result (the fields a filter, the sort and the view read).
DataRow(t, rowIdx, checkboxStates) ==
  LET allCells == InjectEntries(IdOrder, checkboxStates, rowIdx, AllCellsOf(t, rowIdx))
  IN [index |-> rowIdx, vals |-> allCells, searchIndex |-> Join(SearchParts(t, allCells, 1))]

\* A row construction that injects the entries as they stood before the
\* cells of the row were looked at.
RECURSIVE BuildRows_injectFirst(_, _, _, _)
BuildRows_injectFirst(t, rowIdx, checkboxStates, acc) ==
  IF rowIdx >= Len(TableRows(t)) THEN [rows |-> acc, checkboxStates |-> checkboxStates]
  ELSE BuildRows_injectFirst(t, rowIdx + 1,
                             DetectCheckboxes(t, rowIdx, 0, checkboxStates),
                             Append(acc, DataRow(t, rowIdx, checkboxStates)))

\* tableData.rows.map: rows in order, the entries accumulating on the way.
RECURSIVE BuildRows(_, _, _, _)
BuildRows(t, rowIdx, checkboxStates, acc) ==
  IF rowIdx >= Len(TableRows(t)) THEN [rows |-> acc, checkboxStates |-> checkboxStates]
  ELSE LET states == DetectCheckboxes(t, rowIdx, 0, checkboxStates)
       IN BuildRows(t, rowIdx + 1, states, Append(acc, DataRow(t, rowIdx, states)))

(***************************************************************************)
(* Filter expressions: JavaScript source evaluated with Function('$row')   *)
(***************************************************************************)

ExprIncTrue  == "$row.Done?.includes('true')"
ExprIncFalse == "$row.done?.includes('false')"
ExprEqual    == "$row.Name === 'Al'"
ExprDeref    == "$row.Done.includes('true')"
ExprSyntax   == "$row.Name ==="

FilterExprs == {ExprIncTrue, ExprIncFalse, ExprEqual, ExprDeref, ExprSyntax}

\* The shape of each expression: the property of $row it reads, what it does
\* with it, and the literal it compares with.
ParseExpr(expr) ==
  CASE expr = ExprIncTrue  -> [kind |-> "optIncludes", prop |-> "Done", lit |-> STrue]
    [] expr = ExprIncFalse -> [kind |-> "optIncludes", prop |-> "done", lit |-> SFalse]
    [] expr = ExprEqual    -> [kind |-> "equals", prop |-> "Name", lit |-> SAl]
    [] expr = ExprDeref    -> [kind |-> "includes", prop |-> "Done", lit |-> STrue]
    [] OTHER               -> [kind |-> "syntax", prop |-> "", lit |-> SEmpty]

\* JavaScript's evaluation of an expression on the value v that reading the
\* property yields: "true", "false" (any falsy result) or "throw".
EvalExpr(ast, v) ==
  CASE ast.kind = "syntax" -> "throw"
    [] ast.kind = "equals" ->
         IF v.t = "str" /\ v.s = ast.lit THEN "true" ELSE "false"
    [] ast.kind = "optIncludes" ->
         IF v.t \in {"undef", "null"} THEN "false"
         ELSE IF v.t \in {"str", "helper"}
         THEN (IF Includes(v.s, ast.lit) THEN "true" ELSE "false")
         ELSE "throw"
    [] OTHER ->
         IF v.t \in {"str", "helper"}
         THEN (IF Includes(v.s, ast.lit) THEN "true" ELSE "false")
         ELSE "throw"

\* target[prop] on a row object.
RowGet(row, prop) == IF prop \in DOMAIN row.vals THEN row.vals[prop] ELSE UndefV

\* The get trap of the Proxy: a string value is replaced by a helper object
\* { includes, including }, anything else is handed out as it is.
addCustomFilterHelpersToRow(row, prop) ==
  LET value == RowGet(row, prop)
  IN IF value.t = "str" THEN HelperV(value.s) ELSE value

\* cache[expr](row): the compiled function run on the proxied row. The try of
\* createFilterFunctionCache encloses only the creation of the closure, so a
\* SyntaxError of Function(...) and a TypeError of the expression both
\* surface here, at the call.
createFilterFunctionCache(expr, row) ==
  LET ast == ParseExpr(expr)
  IN EvalExpr(ast, addCustomFilterHelpersToRow(row, ast.prop))

\* filtering.every(expr => fn(row)): stops at the first falsy result.
RECURSIVE EveryFilter(_, _)
EveryFilter(filtering, row) ==
  IF filtering = <<>> THEN "true"
  ELSE LET r == createFilterFunctionCache(Head(filtering), row)
       IN IF r = "true" THEN EveryFilter(Tail(filtering), row) ELSE r

\* $row.searchIndex.includes(lcSearch), or no search term.
MatchesSearch(row, lcSearch) == lcSearch = <<>> \/ Includes(row.searchIndex, lcSearch)

\* result.filter(...): rows in order; an exception ends the stage.
RECURSIVE FilterRows(_, _, _, _)
FilterRows(rows, filtering, lcSearch, acc) ==
  IF rows = <<>> THEN [threw |-> FALSE, rows |-> acc]
  ELSE LET matchesFilter == EveryFilter(filtering, Head(rows))
       IN IF matchesFilter = "throw" THEN [threw |-> TRUE, rows |-> <<>>]
          ELSE FilterRows(Tail(rows), filtering, lcSearch,
                 IF matchesFilter = "true" /\ MatchesSearch(Head(rows), lcSearch)
                 THEN Append(acc, Head(rows)) ELSE acc)

\* The filter stage (lines 623-637).
FilterStage(rows, filtering, debouncedSearch) ==
  LET lcSearch == ToLowerCase(debouncedSearch)
  IN IF Len(filtering) > 0 \/ lcSearch # <<>>
     THEN FilterRows(rows, filtering, lcSearch, <<>>)
     ELSE [threw |-> FALSE, rows |-> rows]

(***************************************************************************)
(* Sort and pagination                                                     *)
(***************************************************************************)

NoSorting == ""

StartsWithDash(sortField) == sortField \in {"-Name", "-done", "-Done", "-Age"}
SliceOne(sortField) ==
  CASE sortField = "-Name" -> "Name" [] sortField = "-done" -> "done"
    [] sortField = "-Done" -> "Done" [] sortField = "-Age" -> "Age"
    [] OTHER -> sortField

\* (a ?? 0) as a number for the subtraction of the numeric comparator.
NumOrZero(v) ==
  CASE v.t = "num" -> v.n
    [] v.t = "bool" -> IF v.b THEN 1 ELSE 0
    [] OTHER -> 0

Sign(n) == IF n < 0 THEN -1 ELSE IF n > 0 THEN 1 ELSE 0

\* columns.find((c) => c.alias === sortField): the positions of the columns
\* carrying the alias (none: getSortingFunction returns null).
SortColumns(t, sortField) ==
  {i \in 1..Len(Headers(t)) : indexedColumns(t)[i].alias = SliceOne(sortField)}

\* getSortingFunction(sortField, columns)(a, b): the sign of the comparator
\* of the first column carrying the alias.
getSortingFunction(t, sortField, a, b) ==
  LET desc == StartsWithDash(sortField)
      found == SortColumns(t, sortField)
      column == indexedColumns(t)[CHOOSE i \in found : \A j \in found : i <= j]
      str(v) == IF v.t \in {"null", "undef"} THEN <<>> ELSE ValueToString(v)
      missing(v) == v.t \in {"null", "undef"}
  IN CASE column.type \in {"number", "bool"} ->
            IF desc THEN Sign(NumOrZero(b) - NumOrZero(a))
            ELSE Sign(NumOrZero(a) - NumOrZero(b))
       [] column.type \in {"date", "datetime", "time"} ->
            IF missing(a) /\ missing(b) THEN 0
            ELSE IF missing(a) THEN (IF desc THEN -1 ELSE 1)
            ELSE IF missing(b) THEN (IF desc THEN 1 ELSE -1)
            ELSE IF desc THEN Sign(b.n - a.n)
            ELSE Sign(a.n - b.n)
       [] OTHER ->
            IF desc THEN LocaleCompare(str(b), str(a))
            ELSE LocaleCompare(str(a), str(b))

\* Array.prototype.sort is stable: x goes behind every element that does not
\* compare greater than it.
RECURSIVE InsertSorted(_, _, _, _)
InsertSorted(t, sortField, sorted, x) ==
  IF sorted = <<>> THEN <<x>>
  ELSE LET last == sorted[Len(sorted)]
           field == SliceOne(sortField)
       IN IF getSortingFunction(t, sortField, RowGet(last, field), RowGet(x, field)) > 0
          THEN Append(InsertSorted(t, sortField, SubSeq(sorted, 1, Len(sorted) - 1), x), last)
          ELSE Append(sorted, x)

RECURSIVE SortRows(_, _, _, _)
SortRows(t, sortField, rows, acc) ==
  IF rows = <<>> THEN acc
  ELSE SortRows(t, sortField, Tail(rows), InsertSorted(t, sortField, acc, Head(rows)))

\* A sort stage that numbers the rows by their place in its result.
SortStage_renumbered(t, sorting, rows) ==
  LET res == IF sorting = NoSorting \/ SortColumns(t, sorting) = {} THEN rows
             ELSE SortRows(t, sorting, rows, <<>>)
  IN [p \in 1..Len(res) |-> [res[p] EXCEPT !.index = p - 1]]

\* The sort stage (lines 639-645).
SortStage(t, sorting, rows) ==
  IF sorting = NoSorting THEN rows
  ELSE IF SortColumns(t, sorting) = {} THEN rows
  ELSE SortRows(t, sorting, rows, <<>>)

NoPagination == [on |-> FALSE, pageNumber |-> 1, pageSize |-> 1]

\* A slice that takes the row at its end position too.
Slice_inclusive(rows, from, to) ==
  IF from >= Len(rows) THEN <<>>
  ELSE SubSeq(rows, from + 1, IF to + 1 < Len(rows) THEN to + 1 ELSE Len(rows))

\* result.slice(pageSize * (pageNumber - 1), pageSize * pageNumber).
Slice(rows, from, to) ==
  IF from >= Len(rows) THEN <<>>
  ELSE SubSeq(rows, from + 1, IF to < Len(rows) THEN to ELSE Len(rows))

PaginationStage(pagination, rows) ==
  IF pagination.on
  THEN Slice(rows, pagination.pageSize * (pagination.pageNumber - 1),
             pagination.pageSize * pagination.pageNumber)
  ELSE rows

(***************************************************************************)
(* Part II : state of the vault, the store and the mounted tables          *)
(***************************************************************************)

\* Bound on the number of filter expressions active at a time.
MaxFilters == 1

\* Bound on the page numbers the user navigates to.
MaxPage == 3


\* No call of the TableManager yet; no table in the post-processor.
NoCall == [op |-> "none"]
NoCfg == [yaml |-> "none"]

\* A state file: whether it exists, whether JSON.parse accepts its content,
\* and the entries its content spells.
NoFile == [exists |-> FALSE, parsable |-> TRUE, data |-> EmptyMap]
FileOf(data) == [exists |-> TRUE, parsable |-> TRUE, data |-> data]

\* path.join(base, '_checkbox-states', `${fileName}.json`): the folder of the
\* note is no part of it.
getStateFilePath(folder, name) == <<"_checkbox-states", name>>

\* A loader that takes the entries of the file as they stand.
loadCheckboxStates_unguarded(file) == IF file.exists THEN file.data ELSE EmptyMap

\* loadCheckboxStates: the parsed file; {} when there is none, and {} from
\* the catch block when JSON.parse throws.
loadCheckboxStates(file) ==
  IF file.exists /\ file.parsable THEN file.data ELSE EmptyMap

\* The rows memo (lines 517-667) on the state file and the view state.
RowsMemo(t, file, flt, search, sort, pag) ==
  LET loaded   == loadCheckboxStates(file)
      built    == BuildRows(t, 0, loaded, <<>>)
      filtered == FilterStage(built.rows, flt, search)
      sorted   == SortStage(t, sort, filtered.rows)
  IN [threw          |-> filtered.threw,
      updated        |-> built.checkboxStates # loaded,
      checkboxStates |-> built.checkboxStates,
      total          |-> Len(sorted),
      rows           |-> PaginationStage(pag, sorted)]

\* The search term of the search box itself.
MemoSearchTerm_raw(t) == searchingOf[t]

\* The search term the rows memo filters by and depends on: debouncedSearch,
\* never the term of the search box.
MemoSearchTerm(t) == searchOf[t]

\* One run of the rows memo of table t. The state file is rewritten when an
\* entry was created (writeFileSync fails, and is logged, when the directory
\* is missing); an exception of the filter stage leaves the memo.
RunPipeline(t) ==
  /\ pc[t] = "render"
  /\ noteExists[NoteOf(t)]
  /\ ranWith' = [ranWith EXCEPT ![t] = MemoSearchTerm(t)]
  /\ UNCHANGED <<searchingOf, timerOf, unitVars>>
  /\ LET name == basename[NoteOf(t)]
         res  == RowsMemo(t, files[name], filteringOf[t], MemoSearchTerm(t),
                          sortingOf[t], paginationOf[t])
     IN /\ files' = IF res.updated /\ dirExists
                    THEN [files EXCEPT ![name] = FileOf(res.checkboxStates)]
                    ELSE files
        /\ IF res.threw
           THEN /\ pc' = [pc EXCEPT ![t] = "crashed"]
                /\ UNCHANGED <<rowsOf, totalOf>>
           ELSE /\ pc' = [pc EXCEPT ![t] = "effect"]
                /\ rowsOf' = [rowsOf EXCEPT ![t] = res.rows]
                /\ totalOf' = [totalOf EXCEPT ![t] = res.total]
  /\ UNCHANGED <<calloutVars, basename, noteExists, viewVars, statesOf,
                 fileNameOf, shownOf, boxToggled, staleWrite>>

\* A lookup that takes the entry recorded for the row at the display position.
SavedEntry_byPosition(states, id, displayPos) ==
  LET ks == {k \in DOMAIN states : states[k].rowIndex = displayPos - 1}
  IN IF ks = {} THEN {} ELSE {states[CHOOSE k \in ks : TRUE]}

\* checkboxStates[id] as the render effect reads it for the checkbox with
\* that id displayed at position displayPos.
SavedEntry(states, id, displayPos) ==
  IF id \in DOMAIN states THEN {states[id]} ELSE {}

\* The checkboxes the visible cells of a row hold, with their checked state:
\* the saved value when the id has an entry, the markup's state otherwise.
BoxesOfRow(t, rowIdx, states, displayPos) ==
  LET cols == indexedColumns(t)
      cells == TableRows(t)[rowIdx + 1]
      ids == {cells[i].cb : i \in {j \in 1..Len(cols) : ~cols[j].hidden /\ cells[j].cb # ""}}
  IN [id \in ids |->
        LET saved == SavedEntry(states, id, displayPos)
        IN IF saved # {} THEN (CHOOSE e \in saved : TRUE).checked ELSE DomDefault]

\* The render effect of DynamicTables (lines 244-334): the state file is
\* loaded and every row of the memo is drawn.
RenderEffect(t) ==
  /\ pc[t] = "effect"
  /\ noteExists[NoteOf(t)]
  /\ LET name   == basename[NoteOf(t)]
         states == loadCheckboxStates(files[name])
     IN /\ fileNameOf' = [fileNameOf EXCEPT ![t] = name]
        /\ statesOf' = [statesOf EXCEPT ![t] = states]
        /\ shownOf' = [shownOf EXCEPT ![t] =
                       [p \in 1..Len(rowsOf[t]) |->
                          [index |-> rowsOf[t][p].index,
                           boxes |-> BoxesOfRow(t, rowsOf[t][p].index, states, p)]]]
  /\ pc' = [pc EXCEPT ![t] = "idle"]
  /\ UNCHANGED <<calloutVars, basename, noteExists, files, viewVars, rowsOf, totalOf,
                 boxToggled, staleWrite, debounceVars, unitVars>>

\* cell.column.alias || cell.column.name of the column holding box id in a row.
ColumnKeyOfBox(t, rowIdx, id) ==
  LET cols == indexedColumns(t)
      i == CHOOSE j \in 1..Len(cols) : TableRows(t)[rowIdx + 1][j].cb = id
  IN IF cols[i].alias # "" THEN cols[i].alias ELSE cols[i].name

\* saveCheckboxStates: the directory is created when missing and the whole
\* object of the closure replaces the file.
saveCheckboxStates(fs, name, states) == [fs EXCEPT ![name] = FileOf(states)]

\* The change listener of a displayed checkbox (lines 303-310).
ToggleBox(t, p, id) ==
  /\ pc[t] = "idle"
  /\ p \in DOMAIN shownOf[t]
  /\ id \in DOMAIN shownOf[t][p].boxes
  /\ LET row     == shownOf[t][p]
         checked == ~row.boxes[id]
         states  == Put(statesOf[t], id,
                        CheckboxMeta(checked, row.index, ColumnKeyOfBox(t, row.index, id)))
     IN /\ shownOf' = [shownOf EXCEPT ![t][p].boxes[id] = checked]
        /\ statesOf' = [statesOf EXCEPT ![t] = states]
        /\ files' = saveCheckboxStates(files, fileNameOf[t], states)
        /\ boxToggled' = Put(boxToggled, id, checked)
  /\ dirExists' = TRUE
  /\ staleWrite' = (staleWrite \/ ~noteExists[NoteOf(t)]
                    \/ fileNameOf[t] # basename[NoteOf(t)])
  /\ UNCHANGED <<memCache, calloutFile, writeQueue, pass, dom, issued, toggled, fresh,
                 basename, noteExists, pc, viewVars, rowsOf, totalOf, fileNameOf,
                 debounceVars, unitVars>>

\* A change of the view state makes the rows memo run again.
ViewChanged(t) ==
  /\ pc' = [pc EXCEPT ![t] = "render"]
  /\ UNCHANGED <<calloutVars, basename, noteExists, files, rowsOf, totalOf, statesOf,
                 fileNameOf, shownOf, boxToggled, staleWrite, ranWith, unitVars>>

\* handleFilterChange: the expression joins the active list.
handleFilterChange(t, value) ==
  /\ pc[t] = "idle"
  /\ Len(filteringOf[t]) < MaxFilters
  /\ \A i \in 1..Len(filteringOf[t]) : filteringOf[t][i] # value
  /\ filteringOf' = [filteringOf EXCEPT ![t] = Append(@, value)]
  /\ UNCHANGED <<searchOf, sortingOf, paginationOf, searchingOf, timerOf>>
  /\ ViewChanged(t)

\* handleRemoveFilter: the expression leaves the active list.
handleRemoveFilter(t, value) ==
  /\ pc[t] = "idle"
  /\ \E i \in 1..Len(filteringOf[t]) : filteringOf[t][i] = value
  /\ filteringOf' = [filteringOf EXCEPT ![t] = SelectSeq(@, LAMBDA f : f # value)]
  /\ UNCHANGED <<searchOf, sortingOf, paginationOf, searchingOf, timerOf>>
  /\ ViewChanged(t)

\* The change handler of the search box: setSearching(term). The effect of
\* the debounce hook clears the pending timer and starts one for the new term.
Keystroke(t, term) ==
  /\ pc[t] = "idle"
  /\ searchingOf[t] # term
  /\ searchingOf' = [searchingOf EXCEPT ![t] = term]
  /\ timerOf' = [timerOf EXCEPT ![t] = <<term>>]
  /\ UNCHANGED <<calloutVars, tableVars, ranWith, unitVars>>

\* The timer of the debounce hook fires, 200 ms after the last change of the
\* search box: the debounced search term takes the term of the timer, and the
\* rows memo runs again when that changed it.
SearchSettled(t, term) ==
  /\ pc[t] = "idle"
  /\ timerOf[t] = <<term>>
  /\ timerOf' = [timerOf EXCEPT ![t] = <<>>]
  /\ UNCHANGED searchingOf
  /\ IF searchOf[t] # term
     THEN /\ searchOf' = [searchOf EXCEPT ![t] = term]
          /\ UNCHANGED <<filteringOf, sortingOf, paginationOf>>
          /\ ViewChanged(t)
     ELSE UNCHANGED <<calloutVars, tableVars, ranWith, unitVars>>

\* setSorting from the sort controls.
setSorting(t, directive) ==
  /\ pc[t] = "idle"
  /\ sortingOf[t] # directive
  /\ sortingOf' = [sortingOf EXCEPT ![t] = directive]
  /\ UNCHANGED <<filteringOf, searchOf, paginationOf, searchingOf, timerOf>>
  /\ ViewChanged(t)

\* onChangePagination({ pageNumber }).
onChangePagination(t, pageNumber) ==
  /\ pc[t] = "idle"
  /\ paginationOf[t].on
  /\ paginationOf[t].pageNumber # pageNumber
  /\ paginationOf' = [paginationOf EXCEPT ![t].pageNumber = pageNumber]
  /\ UNCHANGED <<filteringOf, searchOf, sortingOf, searchingOf, timerOf>>
  /\ ViewChanged(t)

\* A rename handler that leaves the old state file in place.
renameStateFile_copy(fs, oldName, newName) == [fs EXCEPT ![newName] = fs[oldName]]

\* fs.promises.rename(oldStateFilePath, newStateFilePath).
renameStateFile(fs, oldName, newName) ==
  [fs EXCEPT ![newName] = fs[oldName], ![oldName] = NoFile]

\* onFileRename: the note takes a new base name; its state file, when there is
\* one, is renamed with it.
onFileRename(n, newName) ==
  /\ noteExists[n]
  /\ newName # basename[n]
  /\ basename' = [basename EXCEPT ![n] = newName]
  /\ files' = IF dirExists /\ files[basename[n]].exists
              THEN renameStateFile(files, basename[n], newName)
              ELSE files
  /\ UNCHANGED <<calloutVars, noteExists, pc, viewVars, rowsOf, totalOf, statesOf,
                 fileNameOf, shownOf, boxToggled, staleWrite, debounceVars, unitVars>>

\* onFileDelete: the note leaves the vault; its state file, when there is
\* one, is unlinked.
onFileDelete(n) ==
  /\ noteExists[n]
  /\ noteExists' = [noteExists EXCEPT ![n] = FALSE]
  /\ files' = IF dirExists /\ files[basename[n]].exists
              THEN [files EXCEPT ![basename[n]] = NoFile]
              ELSE files
  /\ UNCHANGED <<calloutVars, basename, pc, viewVars, rowsOf, totalOf, statesOf,
                 fileNameOf, shownOf, boxToggled, staleWrite, debounceVars, unitVars>>

\* The content of a state file is damaged from outside the plugin: it is no
\* JSON text any more.
DamageFile(nm) ==
  /\ files[nm].exists
  /\ files[nm].parsable
  /\ files' = [files EXCEPT ![nm].parsable = FALSE]
  /\ UNCHANGED <<calloutVars, basename, noteExists, pc, viewVars, rowsOf, totalOf,
                 statesOf, fileNameOf, shownOf, boxToggled, staleWrite,
                 debounceVars, unitVars>>

\* The document is rendered again: mountDynamicTables replaces the view of the
\* table by a new component with its initial state.
Remount(t) ==
  /\ pc[t] \in {"idle", "crashed"}
  /\ noteExists[NoteOf(t)]
  /\ pc' = [pc EXCEPT ![t] = "render"]
  /\ filteringOf' = [filteringOf EXCEPT ![t] = <<>>]
  /\ searchOf' = [searchOf EXCEPT ![t] = <<>>]
  /\ sortingOf' = [sortingOf EXCEPT ![t] = NoSorting]
  /\ paginationOf' = [paginationOf EXCEPT ![t].pageNumber = 1]
  /\ rowsOf' = [rowsOf EXCEPT ![t] = <<>>]
  /\ totalOf' = [totalOf EXCEPT ![t] = Len(TableRows(t))]
  /\ shownOf' = [shownOf EXCEPT ![t] = <<>>]
  /\ statesOf' = [statesOf EXCEPT ![t] = EmptyMap]
  /\ searchingOf' = [searchingOf EXCEPT ![t] = <<>>]
  /\ timerOf' = [timerOf EXCEPT ![t] = <<>>]
  /\ UNCHANGED <<calloutVars, basename, noteExists, files, fileNameOf, boxToggled,
                 staleWrite, ranWith, unitVars>>

(***************************************************************************)
(* Part III : a table and its YAML block in the markdown post-processor     *)
(***************************************************************************)

\* Bound on the number of data rows of the table under the post-processor.
MaxSortRows == 3

DEFAULT_PAGE_SIZE == 25
DEFAULT_PAGES_SIZE_OPTIONS == <<25, 50, 100>>

\* configuration.pagination: absent, or an object whose 'page-size' and
\* 'page-sizes' are each given or left out.
NoPaginationConfig == [given |-> FALSE]
PaginationConfig(hasSize, size, hasSizes, sizes) ==
  [given |-> TRUE, hasSize |-> hasSize, size |-> size,
   hasSizes |-> hasSizes, sizes |-> sizes]

PageSizeChoices == {5, 25, 30}
PageSizesChoices == {<<5, 10>>, <<10, 25, 50>>}
PaginationConfigs ==
  {NoPaginationConfig}
    \cup {PaginationConfig(TRUE, n, TRUE, l) : n \in PageSizeChoices, l \in PageSizesChoices}
    \cup {PaginationConfig(TRUE, n, FALSE, <<>>) : n \in PageSizeChoices}
    \cup {PaginationConfig(FALSE, 0, TRUE, l) : l \in PageSizesChoices}
    \cup {PaginationConfig(FALSE, 0, FALSE, <<>>)}

\* The raw cells of the Age column of the table.
AgeCells == {<<>>, <<"1">>, <<"3">>, <<"-", "2">>}

\* The text of a YAML block that parseYaml rejects, of one that the schema
\* rejects, and the blocks that pass both, with the table below them.
UnparsableBlock == [yaml |-> "unparsable"]
InvalidBlock == [yaml |-> "invalid"]
ValidBlocks ==
  {[yaml |-> "valid", pagination |-> pg, sort |-> srt, ages |-> ag] :
     pg \in PaginationConfigs, srt \in {"Age", "-Age"},
     ag \in UNION {[1..n -> AgeCells] : n \in {MaxSortRows}}}

\* String(n) of a natural number, as the sequence of its decimal digits.
RECURSIVE DecimalString(_)
DecimalString(n) ==
  IF n < 10 THEN <<n>> ELSE Append(DecimalString(n \div 10), n % 10)

\* a < b in the order of the UTF-16 code units of two digit strings.
RECURSIVE StringLess(_, _)
StringLess(a, b) ==
  IF b = <<>> THEN FALSE
  ELSE IF a = <<>> THEN TRUE
  ELSE IF Head(a) # Head(b) THEN Head(a) < Head(b)
  ELSE StringLess(Tail(a), Tail(b))

\* Array.prototype.sort() without a comparator: the elements are ordered by
\* their string conversions.
RECURSIVE DefaultSortInsert(_, _)
DefaultSortInsert(sorted, x) ==
  IF sorted = <<>> THEN <<x>>
  ELSE LET last == sorted[Len(sorted)]
       IN IF StringLess(DecimalString(x), DecimalString(last))
          THEN Append(DefaultSortInsert(SubSeq(sorted, 1, Len(sorted) - 1), x), last)
          ELSE Append(sorted, x)

RECURSIVE DefaultSortFrom(_, _)
DefaultSortFrom(list, acc) ==
  IF list = <<>> THEN acc
  ELSE DefaultSortFrom(Tail(list), DefaultSortInsert(acc, Head(list)))

DefaultSort(list) == DefaultSortFrom(list, <<>>)

\* pageSizes.includes(pageSize)
ListIncludes(list, x) == \E i \in 1..Len(list) : list[i] = x

\* The initial value of the pagination state (useState initialiser).
NoPageState == [on |-> FALSE, pageNumber |-> 1, pageSize |-> 1, pageSizes |-> <<>>]
\* The initialiser with the array DEFAULT_PAGES_SIZE_OPTIONS as it stands:
\* pageSizes is that very array when the configuration gives no page-sizes,
\* so push and sort change it in place.
InitialPaginationFrom(configuration, defaults) ==
  IF configuration.pagination.given
  THEN LET pageSize == IF configuration.pagination.hasSize
                       THEN configuration.pagination.size ELSE DEFAULT_PAGE_SIZE
           pageSizes == IF configuration.pagination.hasSizes
                        THEN configuration.pagination.sizes
                        ELSE defaults
           result == IF ~ListIncludes(pageSizes, pageSize)
                     THEN DefaultSort(Append(pageSizes, pageSize))
                     ELSE pageSizes
       IN [pagination |-> [on |-> TRUE, pageNumber |-> 1, pageSize |-> pageSize,
                           pageSizes |-> result],
           defaults |-> IF configuration.pagination.hasSizes THEN defaults ELSE result]
  ELSE [pagination |-> NoPageState, defaults |-> defaults]

\* The initialiser in a freshly loaded module.
InitialPagination(configuration) ==
  InitialPaginationFrom(configuration, DEFAULT_PAGES_SIZE_OPTIONS).pagination

\* parseYaml(configurationString): it throws on a text that is no YAML.
parseYaml(block) == [threw |-> block.yaml = "unparsable", value |-> block]

\* validateConfiguration: true, or the messages of the schema violations.
validateConfiguration(configuration) ==
  IF configuration.yaml = "invalid"
  THEN [valid |-> FALSE, message |-> "/sort must be string"]
  ELSE [valid |-> TRUE, message |-> ""]

\* What getMountContext resolves to: null, a string, or the mount context.
NullContext == [kind |-> "null", message |-> "", configuration |-> NoCfg]
ErrorString(message) == [kind |-> "string", message |-> message, configuration |-> NoCfg]
MountContext(configuration) ==
  [kind |-> "context", message |-> "", configuration |-> configuration]

getMountContext(block) ==
  IF block.yaml = "none" THEN NullContext
  ELSE LET parsed == parseYaml(block)
       IN IF parsed.threw THEN ErrorString("Cannot parse the yaml configuration")
          ELSE LET validOrValidationMessage == validateConfiguration(parsed.value)
               IN IF ~validOrValidationMessage.valid
                  THEN ErrorString(validOrValidationMessage.message)
                  ELSE MountContext(parsed.value)

\* A test that takes nothing for an error.
isError_never(possibleMountContext) == FALSE

\* typeof possibleMountContext === 'string'
isError(possibleMountContext) == possibleMountContext.kind = "string"

\* The code block and the table as the post-processor finds them.
MountPending ==
  [stage |-> "pending", result |-> NullContext, marked |-> FALSE, errors |-> <<>>,
   hidden |-> FALSE, sorting |-> NoSorting, pagination |-> NoPageState, rows |-> <<>>]

\* The timer of getMountContext: the promise resolves; the code block and the
\* section are only marked when a mount context is resolved.
GetMountContext ==
  /\ mountOf # NoCall
  /\ mountOf.stage = "pending"
  /\ LET result == getMountContext(blockOf)
     IN mountOf' = [mountOf EXCEPT !.stage = "resolved", !.result = result,
                                   !.marked = (result.kind = "context")]
  /\ UNCHANGED <<calloutVars, tableVars, debounceVars, docVars, extraVars, blockOf>>

\* The post-processor after the await: nothing for null, the error lines for
\* a string, the timer of the mount otherwise.
PostProcessor ==
  /\ mountOf # NoCall
  /\ mountOf.stage = "resolved"
  /\ mountOf' =
       IF mountOf.result.kind = "null" THEN [mountOf EXCEPT !.stage = "ignored"]
       ELSE IF isError(mountOf.result)
       THEN [mountOf EXCEPT !.stage = "error",
                            !.errors = <<"Validation errors:", mountOf.result.message>>]
       ELSE [mountOf EXCEPT !.stage = "scheduled"]
  /\ UNCHANGED <<calloutVars, tableVars, debounceVars, docVars, extraVars, blockOf>>

\* The timer of the post-processor fires: mountDynamicTables hides the table
\* and renders the component, whose state takes its initial values.
MountTimer ==
  /\ mountOf # NoCall
  /\ mountOf.stage = "scheduled"
  /\ LET configuration == mountOf.result.configuration
     IN mountOf' = [mountOf EXCEPT !.stage = "mounted", !.hidden = TRUE,
                                   !.sorting = configuration.sort,
                                   !.pagination = InitialPagination(configuration)]
  /\ UNCHANGED <<calloutVars, tableVars, debounceVars, docVars, extraVars, blockOf>>

\* The row objects of the table with the Age column (tableData.rows.map).
AgeRows(ages) ==
  [i \in 1..Len(ages) |->
     [index |-> i - 1,
      vals |-> [Age |-> extractValue(ages[i], indexedColumns("t4")[1],
                                     DEFAULT_BOOL_YES_INPUT)],
      searchIndex |-> <<>>]]

\* The first run of the rows memo of the mounted table: the sort stage.
FirstRun ==
  /\ mountOf # NoCall
  /\ mountOf.stage = "mounted"
  /\ mountOf' = [mountOf EXCEPT !.stage = "rendered",
                                !.rows = SortStage("t4", mountOf.sorting,
                                                   AgeRows(blockOf.ages))]
  /\ UNCHANGED <<calloutVars, tableVars, debounceVars, docVars, extraVars, blockOf>>

(***************************************************************************)
(* Part IV : the TableManager on the text of a document                     *)
(***************************************************************************)

\* Bound on the number of data lines of the first table of the document.
MaxDataLines == 2

\* String.prototype.split(sep) on a one-character separator.
RECURSIVE SplitFrom(_, _, _, _)
SplitFrom(str, sep, parts, current) ==
  IF str = <<>> THEN Append(parts, current)
  ELSE IF Head(str) = sep THEN SplitFrom(Tail(str), sep, Append(parts, current), <<>>)
  ELSE SplitFrom(Tail(str), sep, parts, Append(current, Head(str)))

Split(str, sep) == SplitFrom(str, sep, <<>>, <<>>)

\* Array.prototype.join(sep) on a one-character separator.
RECURSIVE JoinWith(_, _)
JoinWith(strs, sep) ==
  IF strs = <<>> THEN <<>>
  ELSE IF Len(strs) = 1 THEN strs[1]
  ELSE strs[1] \o <<sep>> \o JoinWith(Tail(strs), sep)

\* line.match(/^\|.*?\|$/gm) on a line without line breaks.
LINE_REGEX(line) == Len(line) >= 2 /\ line[1] = "|" /\ line[Len(line)] = "|"

\* line.match(/^\|\s*-[-\s|]*?-\s*\|$/gm): between the outer pipes, blanks,
\* a dash, dashes, blanks and pipes, a dash, blanks.
SUB_HEADER_LINE_REGEX(line) ==
  /\ LINE_REGEX(line)
  /\ LET inner == Trim(SubSeq(line, 2, Len(line) - 1))
     IN /\ Len(inner) >= 2
        /\ inner[1] = "-"
        /\ inner[Len(inner)] = "-"
        /\ \A i \in 1..Len(inner) : inner[i] \in {"-", " ", "|"}

\* TableDocument.documentToBlocks from line i on; current holds the block
\* being filled, if any.
RECURSIVE BlocksFrom(_, _, _, _)
BlocksFrom(lines, i, blocksOfText, current) ==
  IF i > Len(lines) THEN blocksOfText \o current
  ELSE LET line == lines[i]
       IN IF /\ LINE_REGEX(line)
             /\ i + 1 <= Len(lines)
             /\ SUB_HEADER_LINE_REGEX(lines[i + 1])
          THEN BlocksFrom(lines, i + 1, blocksOfText \o current,
                          <<[type |-> "table", lines |-> <<line>>]>>)
          ELSE IF current # <<>> /\ current[1].type = "table"
          THEN IF LINE_REGEX(line)
               THEN BlocksFrom(lines, i + 1, blocksOfText,
                               <<[current[1] EXCEPT !.lines = Append(@, line)]>>)
               ELSE BlocksFrom(lines, i + 1, blocksOfText \o current,
                               <<[type |-> "text", lines |-> <<line>>]>>)
          ELSE BlocksFrom(lines, i + 1, blocksOfText,
                          IF current = <<>>
                          THEN <<[type |-> "text", lines |-> <<line>>]>>
                          ELSE <<[current[1] EXCEPT !.lines = Append(@, line)]>>)

\* new TableDocument(fileContent): the content is held as its lines,
\* fileContent.split('\n').
documentToBlocks(fileContent) == BlocksFrom(fileContent, 1, <<>>, <<>>)

\* TableDocument.toString and the split of its result: the lines of all
\* blocks, a line holding line breaks counting as several.
RECURSIVE Resplit(_)
Resplit(lines) ==
  IF lines = <<>> THEN <<>>
  ELSE Split(Head(lines), "\n") \o Resplit(Tail(lines))

RECURSIVE FlatLines(_)
FlatLines(blocks) ==
  IF blocks = <<>> THEN <<>> ELSE Head(blocks).lines \o FlatLines(Tail(blocks))

toString(blocks) == Resplit(FlatLines(blocks))

\* The positions, among the blocks, of the table blocks in order:
\* blocks.filter((b) => b.type === 'table').
TablePositions(blocks) == SelectSeq([i \in 1..Len(blocks) |-> i],
                                    LAMBDA i : blocks[i].type = "table")

\* getTable(index) is defined.
hasTable(blocks, tableIndex) ==
  tableIndex >= 0 /\ tableIndex < Len(TablePositions(blocks))

getTable(blocks, tableIndex) == TablePositions(blocks)[tableIndex + 1]

\* `|${values.map((v) => v.trim()).join('|')}|`
valuesToLine(values) ==
  <<"|">> \o JoinWith([i \in 1..Len(values) |-> Trim(values[i])], "|") \o <<"|">>

\* line.replace(/^\|/, '').replace(/\|$/, '').split('|')
lineToValues(line) ==
  LET a == IF line # <<>> /\ Head(line) = "|" THEN Tail(line) ELSE line
      b == IF a # <<>> /\ a[Len(a)] = "|" THEN SubSeq(a, 1, Len(a) - 1) ELSE a
  IN Split(b, "|")

\* let targetLineNo = lineNo + 2; if (lineNo === -1) targetLineNo =
\* tableBlock.lines.length;  (0-based index into the lines of the block)
targetLineNo(lineNo, tableLines) ==
  IF lineNo = -1 THEN Len(tableLines) ELSE lineNo + 2

\* What readLine returns: null or the values of a line.
NoValues == [kind |-> "null", values |-> <<>>]
SomeValues(values) == [kind |-> "values", values |-> values]

\* TableManager.modifyLine
modifyLine(fileContent, lineNo, values, tableIndex) ==
  LET blocks == documentToBlocks(fileContent)
  IN IF ~hasTable(blocks, tableIndex) THEN fileContent
     ELSE LET b == getTable(blocks, tableIndex)
              target == targetLineNo(lineNo, blocks[b].lines)
          IN IF ~(target >= 0 /\ target < Len(blocks[b].lines)) THEN fileContent
             ELSE toString([blocks EXCEPT ![b].lines[target + 1] = valuesToLine(values)])

\* TableManager.removeLine
removeLine(fileContent, lineNo, tableIndex) ==
  LET blocks == documentToBlocks(fileContent)
  IN IF ~hasTable(blocks, tableIndex) THEN fileContent
     ELSE LET b == getTable(blocks, tableIndex)
              target == targetLineNo(lineNo, blocks[b].lines)
          IN IF target >= 0 /\ target < Len(blocks[b].lines)
             THEN toString([blocks EXCEPT ![b].lines = RemoveAt(@, target + 1)])
             ELSE toString(blocks)

\* TableManager.readLine
readLine(fileContent, lineNo, tableIndex) ==
  LET blocks == documentToBlocks(fileContent)
  IN IF ~hasTable(blocks, tableIndex) THEN NoValues
     ELSE LET b == getTable(blocks, tableIndex)
              target == targetLineNo(lineNo, blocks[b].lines)
          IN IF target >= 0 /\ target < Len(blocks[b].lines)
             THEN SomeValues(lineToValues(blocks[b].lines[target + 1]))
             ELSE NoValues

\* TableManager.readTableLines
readTableLines(fileContent, tableIndex) ==
  LET blocks == documentToBlocks(fileContent)
  IN IF ~hasTable(blocks, tableIndex) THEN <<>>
     ELSE [i \in 1..Len(blocks[getTable(blocks, tableIndex)].lines) |->
             lineToValues(blocks[getTable(blocks, tableIndex)].lines[i])]

\* The calls made on the document.
NoTmCall == [op |-> "none", lineNo |-> 0, tableIndex |-> 0, values |-> <<>>, column |-> 0]
TmCall(op, lineNo, tableIndex, values, column) ==
  [op |-> op, lineNo |-> lineNo, tableIndex |-> tableIndex, values |-> values,
   column |-> column]

LineNos == {-1, 0, 1}
TableIndexes == {0, 1, 2}
ValueChoices == {<<<<" ", "b">>, <<"a", " ">>>>, <<<<"-">>, <<"-">>>>}

ReadLine(lineNo, tableIndex) ==
  /\ tmCall' = TmCall("readLine", lineNo, tableIndex, <<>>, 0)
  /\ tmOut' = readLine(doc, lineNo, tableIndex)
  /\ UNCHANGED <<calloutVars, tableVars, debounceVars, mountVars, extraVars, doc, hiddenCols>>

ModifyLine(lineNo, values, tableIndex) ==
  /\ tmCall' = TmCall("modifyLine", lineNo, tableIndex, values, 0)
  /\ doc' = modifyLine(doc, lineNo, values, tableIndex)
  /\ tmOut' = NoValues
  /\ UNCHANGED <<calloutVars, tableVars, debounceVars, mountVars, extraVars, hiddenCols>>

RemoveLine(lineNo, tableIndex) ==
  /\ tmCall' = TmCall("removeLine", lineNo, tableIndex, <<>>, 0)
  /\ doc' = removeLine(doc, lineNo, tableIndex)
  /\ tmOut' = NoValues
  /\ UNCHANGED <<calloutVars, tableVars, debounceVars, mountVars, extraVars, hiddenCols>>

\* The columns of the dynamic table of the document, and the position among
\* all columns of the idx2-th column that is not hidden (0-based idx2).
ColumnCount == 2
VisibleColumns == SelectSeq([i \in 1..ColumnCount |-> i], LAMBDA i : i \notin hiddenCols)

\* The value an inline editor commits.
NewValues == {<<"c">>}

\* onValueChange(newVal) of the editor in the idx2-th displayed cell of the
\* row with index rowIndex: the values of the row are its raw values with
\* the one at position idx2 replaced, and modifyLine writes them.
onValueChange(fileContent, rowIndex, idx2, newVal) ==
  LET rawValues == readTableLines(fileContent, 0)[rowIndex + 3]
      modifiedRowValues == [i \in 1..ColumnCount |->
                              IF i - 1 = idx2 THEN newVal
                              ELSE IF i <= Len(rawValues) THEN rawValues[i] ELSE <<>>]
  IN modifyLine(fileContent, rowIndex, modifiedRowValues, 0)

CommitEdit(rowIndex, idx2, newVal) ==
  /\ rowIndex + 3 <= Len(readTableLines(doc, 0))
  /\ Len(readTableLines(doc, 0)[rowIndex + 3]) = ColumnCount
  /\ idx2 + 1 <= Len(VisibleColumns)
  /\ tmCall' = TmCall("edit", rowIndex, 0, <<newVal>>, VisibleColumns[idx2 + 1])
  /\ doc' = onValueChange(doc, rowIndex, idx2, newVal)
  /\ tmOut' = NoValues
  /\ UNCHANGED <<calloutVars, tableVars, debounceVars, mountVars, extraVars, hiddenCols>>

(***************************************************************************)
(* Part V : extractValue on one cell                                        *)
(***************************************************************************)

\* The raw contents of a cell and the types a column can declare.
RawCells == {<<>>, <<"1">>, <<"7">>, <<"-", "2">>, <<" ", "3">>, <<"a">>,
             <<"1", "a">>, <<"-">>, <<"-", "a">>, <<"a", "b">>}
ColumnTypes == {"string", "number", "bool", "date", "datetime", "time"}

\* extractValue(cellContent, column, format, yesFormat) on the cell.
ExtractCell ==
  /\ rawCell # NoCall
  /\ extracted = NoCall
  /\ extracted' = extractValue(rawCell.raw,
                               [NoColumnConfig EXCEPT !.type = rawCell.type],
                               DEFAULT_BOOL_YES_INPUT)
  /\ UNCHANGED <<extractRest, rawCell>>

(***************************************************************************)
(* Part VI : CheckboxStateManager, the JSON file of a note                  *)
(***************************************************************************)

\* loadStates(file) once exists() and read() have answered: {} for a missing
\* file and for a text JSON.parse rejects.
CheckboxStateManager_loadStates(file) ==
  IF file.exists /\ file.parsable THEN file.data ELSE EmptyMap

\* A call of saveState(file, checkboxId, checked) that has not run yet.
SaveCall(checkboxId, checked) ==
  [checkboxId |-> checkboxId, checked |-> checked, at |-> "path", data |-> EmptyMap]

\* saveState up to its first await: getStorageFilePath.
SavePath(k) ==
  /\ k \in DOMAIN saveCalls
  /\ saveCalls[k].at = "path"
  /\ saveCalls' = [saveCalls EXCEPT ![k].at = "exists"]
  /\ UNCHANGED <<saveRest, stateJson>>

\* loadStates: adapter.exists answers; a missing file ends the load with {},
\* and the call sets its id and hands the text to adapter.write.
SaveExists(k) ==
  /\ k \in DOMAIN saveCalls
  /\ saveCalls[k].at = "exists"
  /\ saveCalls' =
       IF stateJson.exists
       THEN [saveCalls EXCEPT ![k].at = "read"]
       ELSE [saveCalls EXCEPT ![k].at = "write",
                              ![k].data = Put(EmptyMap, saveCalls[k].checkboxId,
                                              saveCalls[k].checked)]
  /\ UNCHANGED <<saveRest, stateJson>>

\* loadStates: adapter.read answers; data[checkboxId] = checked on what was
\* read, then adapter.write is called with the text.
SaveRead(k) ==
  /\ k \in DOMAIN saveCalls
  /\ saveCalls[k].at = "read"
  /\ saveCalls' = [saveCalls EXCEPT ![k].at = "write",
                                    ![k].data = Put(CheckboxStateManager_loadStates(stateJson),
                                                    saveCalls[k].checkboxId,
                                                    saveCalls[k].checked)]
  /\ UNCHANGED <<saveRest, stateJson>>

\* adapter.write(path, JSON.stringify(data)) replaces the file.
SaveWrite(k) ==
  /\ k \in DOMAIN saveCalls
  /\ saveCalls[k].at = "write"
  /\ stateJson' = FileOf(saveCalls[k].data)
  /\ saveCalls' = [saveCalls EXCEPT ![k].at = "done"]
  /\ UNCHANGED saveRest

(***************************************************************************)
(* Part VII : queueWrite as a chain of promises                             *)
(***************************************************************************)

\* Bound on the number of writes queued for the file.
MaxChain == 3

\* prev.then(fn): fn runs when prev is fulfilled and the result settles as
\* fn does; a rejected prev skips fn and passes the rejection on.
PromiseThen(prev, throws) ==
  IF prev = "fulfilled"
  THEN [ran |-> TRUE, outcome |-> IF throws THEN "rejected" ELSE "fulfilled", logged |-> FALSE]
  ELSE [ran |-> FALSE, outcome |-> "rejected", logged |-> FALSE]

\* p.catch(e => console.error(...)): a rejection is logged and the result
\* is fulfilled.
PromiseCatch(p) ==
  IF p.outcome = "rejected"
  THEN [ran |-> p.ran, outcome |-> "fulfilled", logged |-> TRUE]
  ELSE p

\* A chain without the catch.
queueWriteNext_uncaught(prev, throws) == PromiseThen(prev, throws)

\* queueWrite, line 14: next = prev.then(fn).catch(log).
queueWriteNext(prev, throws) == PromiseCatch(PromiseThen(prev, throws))

\* writeQueue.get(filePath) ?? Promise.resolve(): the promise link i chains to.
PrevOf(i) == IF i = 1 THEN "fulfilled" ELSE links[i - 1].outcome

\* saveBool, lines 63-68: queueWrite(p, fn) with fn the read-modify-write
\* cycle for key and val; throws tells whether writeFile will fail.
QueueWrite(key, val, throws) ==
  /\ Len(links) < MaxChain
  /\ links' = Append(links, [key |-> key, val |-> val, throws |-> throws,
                             ran |-> FALSE, outcome |-> "pending", logged |-> FALSE])
  /\ UNCHANGED <<chainRest, chainFile>>

\* The oldest pending promise settles once the one before it has.
SettleLink(i) ==
  /\ i \in 1..Len(links)
  /\ links[i].outcome = "pending"
  /\ PrevOf(i) # "pending"
  /\ LET r == queueWriteNext(PrevOf(i), links[i].throws)
     IN /\ links' = [links EXCEPT ![i].ran = r.ran, ![i].outcome = r.outcome,
                                  ![i].logged = r.logged]
        /\ chainFile' = IF r.ran /\ ~links[i].throws
                        THEN Put(readJson(chainFile), links[i].key, links[i].val)
                        ELSE chainFile
  /\ UNCHANGED chainRest

(***************************************************************************)
(* Part VIII : the PaginationView and the pagination it changes             *)
(***************************************************************************)

\* Bound on the number of rows of the table; page numbers are capped one
\* above it.
MaxItems == 7

DEFAULT_MAX_BUTTONS == 3

\* pagination.pageSizes of the table: the options of the page size select.
PageSizeOptions == {1, 2, 5}

Max2(a, b) == IF a >= b THEN a ELSE b
Min2(a, b) == IF a <= b THEN a ELSE b

\* Math.ceil(totalNumberOfItems / pageSize).
NumberOfPages(totalNumberOfItems, pageSize) == (totalNumberOfItems + pageSize - 1) \div pageSize

\* Array.from({ length }, (_, idx) => from + idx); no element for a length
\* below one.
ArrayFrom(length, from) == [idx \in 1..length |-> from + idx - 1]

\* The pages memo: the page buttons to display.
PagesMemo(pageNumber, pageSize, totalNumberOfItems) ==
  LET numberOfPages == NumberOfPages(totalNumberOfItems, pageSize)
      half == DEFAULT_MAX_BUTTONS \div 2
      firstPageBeforeTheCurrentOne ==
        Max2(1, Min2(pageNumber - half, numberOfPages - DEFAULT_MAX_BUTTONS + 1))
      lastPageAfterTheCurrentOne ==
        Min2(numberOfPages, Max2(pageNumber + half, DEFAULT_MAX_BUTTONS))
  IN IF numberOfPages <= DEFAULT_MAX_BUTTONS
     THEN ArrayFrom(numberOfPages, 1)
     ELSE ArrayFrom(pageNumber - firstPageBeforeTheCurrentOne, firstPageBeforeTheCurrentOne)
            \o <<pageNumber>>
            \o ArrayFrom(lastPageAfterTheCurrentOne - pageNumber, pageNumber + 1)

\* The pages the enabled buttons of the view lead to: first, previous, the
\* page buttons, next and last; none when the rows fit on one page.
ButtonTargets(pageNumber, pageSize, totalNumberOfItems) ==
  LET totalNumberOfPages == NumberOfPages(totalNumberOfItems, pageSize)
      shown == PagesMemo(pageNumber, pageSize, totalNumberOfItems)
  IN IF totalNumberOfItems > pageSize
     THEN (IF pageNumber # 1 THEN {1, pageNumber - 1} ELSE {})
          \cup {shown[i] : i \in DOMAIN shown}
          \cup (IF pageNumber # totalNumberOfPages
                THEN {pageNumber + 1, totalNumberOfPages} ELSE {})
     ELSE {}

\* changePage(page) from a button: onChange({ pageSize, pageNumber }).
ChangePage(page) ==
  /\ pager # NoCall
  /\ page \in ButtonTargets(pager.pageNumber, pager.pageSize, pager.total)
  /\ page <= MaxItems + 1
  /\ pager' = [pager EXCEPT !.pageNumber = page]
  /\ UNCHANGED pagerRest

\* The page size select: onChange({ pageSize: Number(value), pageNumber }).
SelectPageSize(size) ==
  /\ pager # NoCall
  /\ size \in PageSizeOptions
  /\ pager' = [pager EXCEPT !.pageSize = size]
  /\ UNCHANGED pagerRest

\* A filter or search change: the rows memo runs again and sets the number
\* of unpaginated rows; the pagination is not touched.
RowsFiltered(total) ==
  /\ pager # NoCall
  /\ total \in 0..MaxItems
  /\ total # pager.total
  /\ pager' = [pager EXCEPT !.total = total]
  /\ UNCHANGED pagerRest

(***************************************************************************)
(* Part IX : the dynamic tables of one document in the DOM                  *)
(***************************************************************************)

\* The dynamic tables of the document, numbered in document order.
DocTables == {1, 2, 3}

\* Array.from(document.querySelectorAll('[config attribute]')).indexOf(el):
\* the number of marked elements before the element in document order.
IndexAmongMarked(t, markedEls) == Cardinality({u \in markedEls : u < t})

\* getMountContext of the section of table t: its configuration element is
\* marked and numbered among the marked elements of the document. The
\* sections reach the post-processor in document order.
MarkAndIndex(t) ==
  /\ t \in DOMAIN stageOf
  /\ stageOf[t] = "new"
  /\ \A u \in DOMAIN stageOf : u < t => stageOf[u] # "new"
  /\ marked' = marked \cup {t}
  /\ indexOf' = [indexOf EXCEPT ![t] = <<IndexAmongMarked(t, marked')>>]
  /\ stageOf' = [stageOf EXCEPT ![t] = "context"]
  /\ UNCHANGED <<domRest, hideOf, rootOf>>

\* mountDynamicTables of table t: every root div carrying its index is
\* removed, its own root div is created, and hide-configuration removes the
\* configuration block from the DOM. The timers of the mounts fire in the
\* order they were set.
MountDynamicTables(t) ==
  /\ t \in DOMAIN stageOf
  /\ stageOf[t] = "context"
  /\ \A u \in DOMAIN stageOf : u < t => stageOf[u] = "mounted"
  /\ rootOf' = [u \in DOMAIN rootOf |->
                  IF u = t THEN indexOf[t]
                  ELSE IF rootOf[u] = indexOf[t] THEN <<>> ELSE rootOf[u]]
  /\ marked' = IF hideOf[t] THEN marked \ {t} ELSE marked
  /\ stageOf' = [stageOf EXCEPT ![t] = "mounted"]
  /\ UNCHANGED <<domRest, hideOf, indexOf>>

(***************************************************************************)
(* Part X : the rows memo over a table whose rows are edited                *)
(***************************************************************************)

\* The rows the table "t5" can hold: a checked box a, an unchecked box b and
\* a row without a box.
BoxA == [Cell(<<"<", "a", ">">>, "a") EXCEPT !.checked = TRUE]
BoxB == Cell(<<"<", "b", ">">>, "b")
NoBox == Cell(Sbob, "")

\* Every selection of these rows in every order.
SourceLayouts ==
  {<<<<x>>>> : x \in {BoxA, BoxB, NoBox}}
    \cup {<<<<x>>, <<y>>>> : x \in {BoxA, BoxB, NoBox}, y \in {BoxA, BoxB, NoBox}}
    \cup {<<<<x>>, <<y>>, <<z>>>> : x \in {BoxA, BoxB, NoBox}, y \in {BoxA, BoxB, NoBox},
                                    z \in {BoxA, BoxB, NoBox}}

DistinctRows(rows) == \A i, j \in 1..Len(rows) : i # j => rows[i] # rows[j]

\* The rows memo runs over the table as the document holds it now; the
\* state file is rewritten when an entry was created.
RerunMemo ==
  /\ memoStale
  /\ LET res == RowsMemo("t5", memoFile, <<>>, <<>>, NoSorting, NoPagination)
     IN /\ memoRows' = res.rows
        /\ memoFile' = IF res.updated THEN FileOf(res.checkboxStates) ELSE memoFile
  /\ memoStale' = FALSE
  /\ UNCHANGED <<sourceRest, sourceRows>>

\* The user inserts, removes or reorders rows of the table in the note; the
\* section is rendered again and the table is mounted anew.
EditSource(rows) ==
  /\ sourceRows # <<>>
  /\ ~memoStale
  /\ rows # sourceRows
  /\ sourceRows' = rows
  /\ memoStale' = TRUE
  /\ UNCHANGED <<sourceRest, memoFile, memoRows>>

(***************************************************************************)
(* Part XI : tables mounted one after the other in one session              *)
(***************************************************************************)

\* Bound on the number of tables mounted in the session.
MaxMounts == 4

\* Configurations with pagination and without page-sizes.
PagedConfigs ==
  {PaginationConfig(TRUE, n, FALSE, <<>>) : n \in PageSizeChoices}
    \cup {PaginationConfig(FALSE, 0, FALSE, <<>>)}

\* A table with the configuration is mounted: its useState initialiser runs.
MountPaged(pg) ==
  /\ Len(mountedPages) < MaxMounts
  /\ LET configuration == [yaml |-> "valid", pagination |-> pg]
         r == InitialPaginationFrom(configuration, defaultOptions)
     IN /\ mountedPages' = Append(mountedPages, [configuration |-> pg,
                                                 pagination |-> r.pagination])
        /\ defaultOptions' = r.defaults
  /\ UNCHANGED optionRest

(***************************************************************************)
(* Specifications                                                          *)
(***************************************************************************)

\* Nothing of the callout sync has happened.
CalloutIdle ==
  /\ memCache = EmptyMap
  /\ calloutFile = EmptyMap
  /\ writeQueue = <<>>
  /\ pass = NoPass
  /\ dom = EmptyMap
  /\ issued = EmptyMap
  /\ toggled = EmptyMap
  /\ fresh = {}

\* No document is under the TableManager and no table is on its way through
\* the post-processor.
DocIdle ==
  /\ doc = <<>>
  /\ hiddenCols = {}
  /\ tmCall = NoCall
  /\ tmOut = NoCall

MountIdle ==
  /\ blockOf = NoCfg
  /\ mountOf = NoCall

\* No cell is on its way through extractValue.
ExtractIdle ==
  /\ rawCell = NoCall
  /\ extracted = NoCall

\* No call of saveState is in flight.
SaveIdle ==
  /\ stateJson = NoFile
  /\ saveCalls = <<>>

\* Nothing was handed to queueWrite.
ChainIdle ==
  /\ links = <<>>
  /\ chainFile = EmptyMap

\* No pagination view is mounted.
PagerIdle == pager = NoCall

\* The dynamic table is the first table of the document.
LayoutIdle == dynTableAt = 0

\* No document with dynamic tables is rendered.
DomIdle ==
  /\ stageOf = <<>>
  /\ hideOf = <<>>
  /\ marked = {}
  /\ indexOf = <<>>
  /\ rootOf = <<>>

\* No table is being edited in the source.
SourceIdle ==
  /\ sourceRows = <<>>
  /\ memoFile = NoFile
  /\ memoRows = <<>>
  /\ memoStale = FALSE

\* The module is freshly loaded and no table was mounted.
OptionsIdle ==
  /\ defaultOptions = DEFAULT_PAGES_SIZE_OPTIONS
  /\ mountedPages = <<>>

ExtraIdle == ExtractIdle /\ SaveIdle /\ ChainIdle /\ PagerIdle /\ LayoutIdle /\ DomIdle /\ SourceIdle /\ OptionsIdle

UnitsIdle == DocIdle /\ MountIdle /\ ExtraIdle

\* The tables of the set mounted are freshly mounted, with the pagination
\* their configuration asks for; no state file exists.
ViewsMounted(mounted, pag) ==
  /\ noteExists = [n \in Notes |-> TRUE]
  /\ files = [nm \in Names |-> NoFile]
  /\ pc = [t \in Tables |-> IF t \in mounted THEN "render" ELSE "unmounted"]
  /\ filteringOf = [t \in Tables |-> <<>>]
  /\ searchOf = [t \in Tables |-> <<>>]
  /\ sortingOf = [t \in Tables |-> NoSorting]
  /\ paginationOf = [t \in Tables |-> IF t = "t1" THEN pag ELSE NoPagination]
  /\ rowsOf = [t \in Tables |-> <<>>]
  /\ totalOf = [t \in Tables |-> Len(TableRows(t))]
  /\ statesOf = [t \in Tables |-> EmptyMap]
  /\ fileNameOf = [t \in Tables |-> ""]
  /\ shownOf = [t \in Tables |-> <<>>]
  /\ boxToggled = EmptyMap
  /\ staleWrite = FALSE
  /\ searchingOf = [t \in Tables |-> <<>>]
  /\ timerOf = [t \in Tables |-> <<>>]
  /\ ranWith = [t \in Tables |-> <<>>]

TablesMounted(mounted, pag) == ViewsMounted(mounted, pag) /\ UnitsIdle

\* --- The callout sync of one note -----------------------------------------

\* The inputs of the sections the post-processor is called for.
Sections == {Keys, {"id:a"}}

InitCallout ==
  /\ dirExists \in BOOLEAN
  /\ memCache = EmptyMap
  /\ calloutFile \in (IF dirExists THEN {EmptyMap, [k \in {"id:a"} |-> TRUE]}
                      ELSE {EmptyMap})
  /\ writeQueue = <<>>
  /\ pass = NoPass
  /\ dom = EmptyMap
  /\ issued = EmptyMap
  /\ toggled = EmptyMap
  /\ fresh = {}
  /\ basename = [n \in Notes |-> IF n = "n1" THEN "N" ELSE "M"]
  /\ TablesMounted({}, NoPagination)

NextCallout ==
  \/ \E ks \in Sections : PassStart(ks)
  \/ PassLoad
  \/ PassFinish
  \/ \E k \in Keys : Toggle(k)
  \/ \E i \in 1..MaxQueue : JobRead(i)
  \/ \E i \in 1..MaxQueue : JobWrite(i)

SpecCallout == InitCallout /\ [][NextCallout]_vars

\* --- One dynamic table under every view state ------------------------------

SearchTerms == {<<>>, SAl}
SortDirectives == {NoSorting, "Name", "-Name"}

InitView ==
  /\ dirExists \in BOOLEAN
  /\ CalloutIdle
  /\ basename = [n \in Notes |-> IF n = "n1" THEN "N" ELSE "M"]
  /\ \E pag \in {NoPagination, [on |-> TRUE, pageNumber |-> 1, pageSize |-> 2]} :
       TablesMounted({"t1"}, pag)

NextView ==
  \/ RunPipeline("t1")
  \/ RenderEffect("t1")
  \/ \E p \in 1..Len(TableRows("t1")), id \in Ids : ToggleBox("t1", p, id)
  \/ \E e \in FilterExprs : handleFilterChange("t1", e)
  \/ \E e \in FilterExprs : handleRemoveFilter("t1", e)
  \/ \E term \in SearchTerms : Keystroke("t1", term)
  \/ \E term \in SearchTerms : SearchSettled("t1", term)
  \/ \E d \in SortDirectives : setSorting("t1", d)
  \/ \E n \in 1..MaxPage : onChangePagination("t1", n)
  \/ Remount("t1")

SpecView == InitView /\ [][NextView]_vars

\* --- Two dynamic tables of one document ------------------------------------

InitTables ==
  /\ dirExists \in BOOLEAN
  /\ CalloutIdle
  /\ basename = [n \in Notes |-> IF n = "n1" THEN "N" ELSE "M"]
  /\ TablesMounted({"t2", "t3"}, NoPagination)

NextTables ==
  \E t \in {"t2", "t3"} :
    \/ RunPipeline(t)
    \/ RenderEffect(t)
    \/ \E p \in 1..Len(TableRows(t)), id \in Ids : ToggleBox(t, p, id)
    \/ Remount(t)

SpecTables == InitTables /\ [][NextTables]_vars

\* --- One dynamic table over a state file that gets damaged ------------------

InitStore ==
  /\ dirExists \in BOOLEAN
  /\ CalloutIdle
  /\ basename = [n \in Notes |-> IF n = "n1" THEN "N" ELSE "M"]
  /\ TablesMounted({"t1"}, NoPagination)

NextStore ==
  \/ RunPipeline("t1")
  \/ RenderEffect("t1")
  \/ \E p \in 1..Len(TableRows("t1")), id \in Ids : ToggleBox("t1", p, id)
  \/ Remount("t1")
  \/ \E nm \in Names : DamageFile(nm)

SpecStore == InitStore /\ [][NextStore]_vars

\* --- One table with its YAML block in the post-processor -------------------

InitMount ==
  /\ dirExists = FALSE
  /\ CalloutIdle
  /\ basename = [n \in Notes |-> IF n = "n1" THEN "N" ELSE "M"]
  /\ ViewsMounted({}, NoPagination)
  /\ DocIdle
  /\ ExtraIdle
  /\ blockOf \in {NoCfg, UnparsableBlock, InvalidBlock} \cup ValidBlocks
  /\ mountOf = MountPending

NextMount ==
  \/ GetMountContext
  \/ PostProcessor
  \/ MountTimer
  \/ FirstRun

SpecMount == InitMount /\ [][NextMount]_vars

\* --- A document with two tables under the TableManager and the editors -----

HeaderLine == <<"|", "a", "|", "b", "|">>
SeparatorLine == <<"|", "-", "|", "-", "|">>
InitialDataLines == {<<"|", "a", "|", "b", "|">>, <<"|", " ", "b", " ", "|", "a", "|">>}

\* A paragraph, the dynamic table, a blank line and a second table.
Document(dataLines) ==
  <<<<"a">>, HeaderLine, SeparatorLine>> \o dataLines
    \o <<<<>>, HeaderLine, SeparatorLine, <<"|", "b", "|", "b", "|">>>>

InitDocument ==
  /\ dirExists = FALSE
  /\ CalloutIdle
  /\ basename = [n \in Notes |-> IF n = "n1" THEN "N" ELSE "M"]
  /\ ViewsMounted({}, NoPagination)
  /\ MountIdle
  /\ ExtraIdle
  /\ \E dataLines \in [1..MaxDataLines -> InitialDataLines] : doc = Document(dataLines)
  /\ hiddenCols \in {{}, {1}}
  /\ tmCall = NoTmCall
  /\ tmOut = NoValues

NextDocument ==
  \/ \E lineNo \in LineNos, tableIndex \in TableIndexes : ReadLine(lineNo, tableIndex)
  \/ \E lineNo \in LineNos, values \in ValueChoices, tableIndex \in TableIndexes :
       ModifyLine(lineNo, values, tableIndex)
  \/ \E lineNo \in LineNos, tableIndex \in TableIndexes : RemoveLine(lineNo, tableIndex)
  \/ \E rowIndex \in 0..(MaxDataLines - 1), idx2 \in 0..(ColumnCount - 1),
         newVal \in NewValues : CommitEdit(rowIndex, idx2, newVal)

SpecDocument == InitDocument /\ [][NextDocument]_vars

\* --- One cell under extractValue ---------------------------------------------

InitExtract ==
  /\ dirExists = FALSE
  /\ CalloutIdle
  /\ basename = [n \in Notes |-> IF n = "n1" THEN "N" ELSE "M"]
  /\ ViewsMounted({}, NoPagination)
  /\ DocIdle
  /\ MountIdle
  /\ OptionsIdle
  /\ SourceIdle
  /\ DomIdle
  /\ LayoutIdle
  /\ PagerIdle
  /\ SaveIdle
  /\ ChainIdle
  /\ rawCell \in {[raw |-> r, type |-> ty] : r \in RawCells, ty \in ColumnTypes}
  /\ extracted = NoCall

NextExtract == ExtractCell

SpecExtract == InitExtract /\ [][NextExtract]_vars

\* --- Two toggles of one note under the CheckboxStateManager -----------------

\* Two change events of different checkboxes, each calling saveState without
\* waiting for the other; the file is missing or holds earlier states.
InitSave ==
  /\ dirExists = FALSE
  /\ CalloutIdle
  /\ basename = [n \in Notes |-> IF n = "n1" THEN "N" ELSE "M"]
  /\ ViewsMounted({}, NoPagination)
  /\ DocIdle
  /\ MountIdle
  /\ OptionsIdle
  /\ SourceIdle
  /\ DomIdle
  /\ LayoutIdle
  /\ PagerIdle
  /\ ExtractIdle
  /\ ChainIdle
  /\ stateJson \in {NoFile} \cup {FileOf(m) : m \in PMaps({"a", "c"}, {FALSE})}
  /\ \E first \in BOOLEAN, second \in BOOLEAN :
       saveCalls = <<SaveCall("a", first), SaveCall("b", second)>>

NextSave ==
  \/ \E k \in 1..2 : SavePath(k)
  \/ \E k \in 1..2 : SaveExists(k)
  \/ \E k \in 1..2 : SaveRead(k)
  \/ \E k \in 1..2 : SaveWrite(k)

SpecSave == InitSave /\ [][NextSave]_vars

\* --- The write queue of one state file ---------------------------------------

InitChain ==
  /\ dirExists = FALSE
  /\ CalloutIdle
  /\ basename = [n \in Notes |-> IF n = "n1" THEN "N" ELSE "M"]
  /\ ViewsMounted({}, NoPagination)
  /\ DocIdle
  /\ MountIdle
  /\ OptionsIdle
  /\ SourceIdle
  /\ DomIdle
  /\ LayoutIdle
  /\ PagerIdle
  /\ ExtractIdle
  /\ SaveIdle
  /\ ChainIdle

NextChain ==
  \/ \E key \in Keys, val \in BOOLEAN, throws \in BOOLEAN : QueueWrite(key, val, throws)
  \/ \E i \in 1..MaxChain : SettleLink(i)

SpecChain == InitChain /\ [][NextChain]_vars

\* --- The pagination view of one table ----------------------------------------

InitPager ==
  /\ dirExists = FALSE
  /\ CalloutIdle
  /\ basename = [n \in Notes |-> IF n = "n1" THEN "N" ELSE "M"]
  /\ ViewsMounted({}, NoPagination)
  /\ DocIdle
  /\ MountIdle
  /\ OptionsIdle
  /\ SourceIdle
  /\ DomIdle
  /\ LayoutIdle
  /\ ExtractIdle
  /\ SaveIdle
  /\ ChainIdle
  /\ \E size \in PageSizeOptions :
       pager = [op |-> "paged", pageNumber |-> 1, pageSize |-> size, total |-> MaxItems]

NextPager ==
  \/ \E page \in 1..(MaxItems + 1) : ChangePage(page)
  \/ \E size \in PageSizeOptions : SelectPageSize(size)
  \/ \E total \in 0..MaxItems : RowsFiltered(total)

SpecPager == InitPager /\ [][NextPager]_vars

\* --- A document with a plain table and a dynamic table, in either order -------

\* A paragraph, a table, a blank line and a second table.
LayoutDocument(firstLines, secondLines) ==
  <<<<"a">>, HeaderLine, SeparatorLine>> \o firstLines
    \o <<<<>>, HeaderLine, SeparatorLine>> \o secondLines

\* One of the two tables carries the configuration block and is mounted: it
\* is the only dynamic table, so its indexOfTheDynamicTable is 0.
InitLayout ==
  /\ dirExists = FALSE
  /\ CalloutIdle
  /\ basename = [n \in Notes |-> IF n = "n1" THEN "N" ELSE "M"]
  /\ ViewsMounted({}, NoPagination)
  /\ MountIdle
  /\ OptionsIdle
  /\ SourceIdle
  /\ DomIdle
  /\ ExtractIdle
  /\ SaveIdle
  /\ ChainIdle
  /\ PagerIdle
  /\ dynTableAt \in {0, 1}
  /\ \E firstLines \in [1..MaxDataLines -> InitialDataLines],
        secondLines \in [1..MaxDataLines -> InitialDataLines] :
       doc = LayoutDocument(firstLines, secondLines)
  /\ hiddenCols \in {{}, {1}}
  /\ tmCall = NoTmCall
  /\ tmOut = NoValues

NextLayout ==
  \E rowIndex \in 0..(MaxDataLines - 1), idx2 \in 0..(ColumnCount - 1),
     newVal \in NewValues : CommitEdit(rowIndex, idx2, newVal)

SpecLayout == InitLayout /\ [][NextLayout]_vars

\* --- The dynamic tables of one document in the post-processor ------------------

\* The sections of the document are handed to the post-processor one by one
\* as they are rendered, and every mount follows its own timer.
InitDom ==
  /\ dirExists = FALSE
  /\ CalloutIdle
  /\ basename = [n \in Notes |-> IF n = "n1" THEN "N" ELSE "M"]
  /\ ViewsMounted({}, NoPagination)
  /\ DocIdle
  /\ MountIdle
  /\ OptionsIdle
  /\ SourceIdle
  /\ ExtractIdle
  /\ SaveIdle
  /\ ChainIdle
  /\ PagerIdle
  /\ LayoutIdle
  /\ stageOf = [t \in DocTables |-> "new"]
  /\ hideOf \in [DocTables -> BOOLEAN]
  /\ marked = {}
  /\ indexOf = [t \in DocTables |-> <<>>]
  /\ rootOf = [t \in DocTables |-> <<>>]

NextDom ==
  \/ \E t \in DocTables : MarkAndIndex(t)
  \/ \E t \in DocTables : MountDynamicTables(t)

SpecDom == InitDom /\ [][NextDom]_vars

\* --- A table whose rows are moved in the source ---------------------------------

InitSource ==
  /\ dirExists = FALSE
  /\ CalloutIdle
  /\ basename = [n \in Notes |-> IF n = "n1" THEN "N" ELSE "M"]
  /\ ViewsMounted({}, NoPagination)
  /\ DocIdle
  /\ MountIdle
  /\ OptionsIdle
  /\ ExtractIdle
  /\ SaveIdle
  /\ ChainIdle
  /\ PagerIdle
  /\ LayoutIdle
  /\ DomIdle
  /\ sourceRows \in {rows \in SourceLayouts : DistinctRows(rows)}
  /\ memoFile = NoFile
  /\ memoRows = <<>>
  /\ memoStale = TRUE

NextSource ==
  \/ RerunMemo
  \/ \E rows \in {r \in SourceLayouts : DistinctRows(r)} : EditSource(rows)

SpecSource == InitSource /\ [][NextSource]_vars

\* --- Tables with pagination mounted one after the other --------------------------

InitOptions ==
  /\ dirExists = FALSE
  /\ CalloutIdle
  /\ basename = [n \in Notes |-> IF n = "n1" THEN "N" ELSE "M"]
  /\ ViewsMounted({}, NoPagination)
  /\ DocIdle
  /\ MountIdle
  /\ ExtractIdle
  /\ SaveIdle
  /\ ChainIdle
  /\ PagerIdle
  /\ LayoutIdle
  /\ DomIdle
  /\ SourceIdle
  /\ defaultOptions = DEFAULT_PAGES_SIZE_OPTIONS
  /\ mountedPages = <<>>

NextOptions == \E pg \in PagedConfigs : MountPaged(pg)

SpecOptions == InitOptions /\ [][NextOptions]_vars

\* --- Two notes that are renamed and deleted, one with a dynamic table --------------------------------

InitVault ==
  /\ dirExists \in BOOLEAN
  /\ CalloutIdle
  /\ basename = [n \in Notes |-> IF n = "n1" THEN "N" ELSE "M"]
  /\ TablesMounted({"t2"}, NoPagination)

NextVault ==
  \/ RunPipeline("t2")
  \/ RenderEffect("t2")
  \/ \E p \in 1..Len(TableRows("t2")), id \in Ids : ToggleBox("t2", p, id)
  \/ Remount("t2")
  \/ \E n \in Notes, nm \in Names : onFileRename(n, nm)
  \/ \E n \in Notes : onFileDelete(n)

SpecVault == InitVault /\ [][NextVault]_vars

(***************************************************************************)
(* Properties                                                              *)
(***************************************************************************)

\* The state file of note n1 as the store holds it.
StoreOfN1 == files[basename["n1"]].data

\* C1: for any toggles of boxes with different ids in dynamic tables of one
\* document, two mounted tables included, the state file of the document
\* holds the value of the last toggle of every toggled box: no toggle
\* handler drops or reverts the entry another one wrote.
C1_BothUpdatesKept ==
  \A id \in DOMAIN boxToggled :
    id \in DOMAIN StoreOfN1 /\ StoreOfN1[id].checked = boxToggled[id]

\* C2: the read-modify-write cycles of the saveBool calls on one state file
\* run one at a time, the oldest first, and once all have completed the file
\* holds every key written, each with the value of the last call issued for it.
C2_SerialisedInOrder ==
  /\ \A i \in 1..Len(writeQueue) : writeQueue[i].phase = "read" => i = 1
  /\ writeQueue = <<>> =>
       \A k \in DOMAIN issued : k \in DOMAIN calloutFile /\ calloutFile[k] = issued[k]

\* Both keys were written, "id:a" last by a toggle that replaced the value a
\* previous session left in the file, and every cycle has completed.
C2_AllWritten ==
  /\ writeQueue = <<>>
  /\ DOMAIN issued = Keys
  /\ "id:a" \in DOMAIN toggled
  /\ "id:b" \in DOMAIN toggled
  /\ calloutFile["id:a"] = toggled["id:a"]
  /\ calloutFile["id:b"] = TRUE

\* C3: once a callout checkbox has been toggled, every later render pass of
\* the note shows it with the toggled value, and the cache entry of the key
\* is never replaced by an older value read from the file.
C3_ToggledValueShown ==
  /\ \A k \in fresh : dom[k] = toggled[k]
  /\ \A k \in DOMAIN toggled : k \in DOMAIN memCache /\ memCache[k] = toggled[k]

ColumnAddress(t, rowIdx, id, convention) ==
  LET cols == indexedColumns(t)
      i == CHOOSE j \in 1..Len(cols) : TableRows(t)[rowIdx + 1][j].cb = id
  IN IF convention = "alias" THEN cols[i].alias ELSE cols[i].name

\* C5: after a run of the row pipeline, for every persisted entry of row r
\* and column C, the value of row r for C contains 'true' exactly when the
\* entry is checked and 'false' exactly when it is not, whichever of the two
\* ways (render pass, toggle) created the entry and with or without alias.
C5_SignalInColumn ==
  pc["t1"] = "effect" =>
    \E convention \in {"alias", "name"} :
      LET built == BuildRows("t1", 0, StoreOfN1, <<>>).rows
      IN \A id \in DOMAIN StoreOfN1 :
           LET e == StoreOfN1[id]
               v == RowGet(built[e.rowIndex + 1],
                           ColumnAddress("t1", e.rowIndex, id, convention))
           IN /\ v.t = "str"
              /\ Includes(v.s, STrue) <=> e.checked
              /\ Includes(v.s, SFalse) <=> ~e.checked

\* Every state file carries the current name of a note of the vault.
OnlyCurrentNames ==
  \A nm \in Names :
    files[nm].exists => \E n \in Notes : noteExists[n] /\ basename[n] = nm

C7_OwnStateFile ==
  \A n \in Notes, m \in Notes :
    (n # m /\ noteExists[n] /\ noteExists[m]) =>
      getStateFilePath(FolderOf(n), basename[n]) # getStateFilePath(FolderOf(m), basename[m])

\* Every expression of the list evaluates true on the row.
AllTrue(flt, row) ==
  \A i \in 1..Len(flt) : createFilterFunctionCache(flt[i], row) = "true"

\* C8: the filter stage returns exactly the rows on which every active
\* expression evaluates true and whose search index contains the lower-cased
\* term; the result is a subset of the input, and one more expression never
\* makes it longer.
C8_ExactSubsetMonotone ==
  LET built  == BuildRows("t1", 0, StoreOfN1, <<>>).rows
      flt    == filteringOf["t1"]
      term   == ToLowerCase(searchOf["t1"])
      keep(r) == AllTrue(flt, r) /\ (term = <<>> \/ Includes(r.searchIndex, term))
      res    == FilterStage(built, flt, searchOf["t1"])
  IN /\ ~res.threw
     /\ res.rows = SelectSeq(built, keep)
     /\ \A i \in 1..Len(res.rows) : \E j \in 1..Len(built) : res.rows[i] = built[j]
     /\ \A e \in FilterExprs :
          LET more == FilterStage(built, Append(flt, e), searchOf["t1"])
          IN ~more.threw => Len(more.rows) <= Len(res.rows)

\* C9: an expression that throws on a row makes the row not match, and no
\* exception leaves the row pipeline.
C9_NoExceptionLeaves == \A t \in Tables : pc[t] # "crashed"

\* C10: the expression $row.Name === 'Al' keeps exactly the rows whose Name
\* cell is the string Al.
C10_EqualityKeepsEqualRows ==
  (/\ pc["t1"] = "effect"
   /\ filteringOf["t1"] = <<ExprEqual>>
   /\ searchOf["t1"] = <<>>
   /\ ~paginationOf["t1"].on) =>
    {rowsOf["t1"][i].index : i \in DOMAIN rowsOf["t1"]}
      = {r \in 0..(Len(TableRows("t1")) - 1) : TableRows("t1")[r + 1][2].text = SAl}

\* C11: a change of the search box within the debounce delay cancels the
\* pending re-evaluation: the one timer pending carries the last term typed,
\* and the rows memo takes a new search term only when no timer is pending,
\* and then the term last typed, never a term typed in between.
C11_RunsWithSettledTerm ==
  [][\A t \in Tables :
       /\ timerOf'[t] # <<>> => timerOf'[t] = <<searchingOf'[t]>>
       /\ ranWith'[t] # ranWith[t] =>
            /\ timerOf[t] = <<>>
            /\ ranWith'[t] = searchingOf[t]]_vars

\* The rows memo has run with a term typed into the search box.
C11_RanWithTypedTerm ==
  /\ pc["t1"] = "effect"
  /\ ranWith["t1"] = SAl
  /\ searchingOf["t1"] = SAl

SortedRowsOfT1 ==
  LET built == BuildRows("t1", 0, StoreOfN1, <<>>).rows
  IN SortStage("t1", sortingOf["t1"],
               FilterStage(built, filteringOf["t1"], searchOf["t1"]).rows)

\* C14: with pagination the page displayed is exactly the filtered and sorted
\* rows at the positions pageSize*(pageNumber-1) up to pageSize*pageNumber
\* exclusive, in their order; a page beyond the last one is empty; the total
\* reported is the number of rows before slicing.
C14_PageIsSlice ==
  (pc["t1"] = "effect" /\ paginationOf["t1"].on) =>
    LET all  == SortedRowsOfT1
        from == paginationOf["t1"].pageSize * (paginationOf["t1"].pageNumber - 1)
        to   == paginationOf["t1"].pageSize * paginationOf["t1"].pageNumber
        at   == {i \in 0..(Len(all) - 1) : from <= i /\ i < to}
    IN /\ Len(rowsOf["t1"]) = Cardinality(at)
       /\ \A k \in 1..Len(rowsOf["t1"]) : rowsOf["t1"][k] = all[from + k]
       /\ totalOf["t1"] = Len(all)

\* A page beyond the last one of three rows is displayed, and it is empty.
C14_PageBeyondLast ==
  /\ pc["t1"] = "effect"
  /\ paginationOf["t1"].on
  /\ paginationOf["t1"].pageNumber = 3
  /\ totalOf["t1"] = 3
  /\ rowsOf["t1"] = <<>>

C19_ErrorNeverMounts ==
  blockOf \in {UnparsableBlock, InvalidBlock} =>
    /\ mountOf.stage \in {"pending", "resolved", "error"}
    /\ ~mountOf.marked
    /\ ~mountOf.hidden
    /\ mountOf.stage = "error" <=> mountOf.errors # <<>>
    /\ mountOf.stage = "resolved" => mountOf.result.kind = "string"

\* The post-processor has shown the error lines for a block that is no YAML.
C19_ErrorShown ==
  /\ blockOf = UnparsableBlock
  /\ mountOf.stage = "error"
  /\ mountOf.errors = <<"Validation errors:", "Cannot parse the yaml configuration">>

\* C15: the initial list of selectable page sizes contains the configured
\* page size and is in ascending numeric order, also when the configured
\* page size was not in the list and has another number of digits.
C15_PageSizesAscending ==
  (mountOf # NoCall /\ mountOf.stage = "mounted" /\ mountOf.pagination.on) =>
    LET pageSizes == mountOf.pagination.pageSizes
    IN /\ ListIncludes(pageSizes, mountOf.pagination.pageSize)
       /\ \A i, j \in 1..Len(pageSizes) : i < j => pageSizes[i] < pageSizes[j]

\* C16: sorting a number column descending places every row whose value is
\* missing behind all rows that have a numeric value, negative ones included.
C16_MissingLastDescending ==
  (mountOf # NoCall /\ mountOf.stage = "rendered" /\ mountOf.sorting = "-Age") =>
    LET rows == mountOf.rows
        missing(r) == blockOf.ages[r.index + 1] = <<>>
    IN \A p, q \in 1..Len(rows) :
         (missing(rows[p]) /\ ~missing(rows[q])) => q < p

\* The position in the document of line k (0-based) of the block at place b.
RECURSIVE LinesBefore(_, _)
LinesBefore(blocks, b) ==
  IF b <= 1 THEN 0 ELSE Len(blocks[b - 1].lines) + LinesBefore(blocks, b - 1)

DocPosition(blocks, b, k) == LinesBefore(blocks, b) + k + 1

\* The cells of a row as an edit or a call is expected to leave them.
Trimmed(values) == [i \in 1..Len(values) |-> Trim(values[i])]

\* C13: committing an inline edit rewrites the line of the row so that only
\* the column of the edited cell takes the new value and every other column
\* keeps its value (surrounding blanks apart), also with hidden columns.
C13_OnlyEditedCellChanges ==
  [][tmCall'.op = "edit" =>
       LET old == readTableLines(doc, 0)[tmCall'.lineNo + 3]
           new == readTableLines(doc', 0)[tmCall'.lineNo + 3]
       IN /\ Len(readTableLines(doc', 0)) = Len(readTableLines(doc, 0))
          /\ Len(new) = ColumnCount
          /\ \A i \in 1..ColumnCount :
               new[i] = IF i = tmCall'.column THEN Trim(tmCall'.values[1])
                        ELSE Trim(old[i])]_vars

\* C17: in readLine, modifyLine and removeLine the line number -1 designates
\* the last line of the table: it is the line read, replaced or removed.
C17_MinusOneIsLastLine ==
  [][(/\ tmCall'.op \in {"readLine", "modifyLine", "removeLine"}
      /\ tmCall'.lineNo = -1
      /\ hasTable(documentToBlocks(doc), tmCall'.tableIndex)) =>
       LET blocks == documentToBlocks(doc)
           b      == getTable(blocks, tmCall'.tableIndex)
           last   == Len(blocks[b].lines) - 1
           at     == DocPosition(blocks, b, last)
       IN CASE tmCall'.op = "readLine" ->
                 tmOut' = SomeValues(lineToValues(blocks[b].lines[last + 1]))
            [] tmCall'.op = "modifyLine" ->
                 doc' = [doc EXCEPT ![at] = valuesToLine(tmCall'.values)]
            [] OTHER -> doc' = RemoveAt(doc, at)]_vars

\* C18: modifyLine on an existing table and data line changes that one line
\* of the document only, and readLine of the result at the same place
\* returns the trimmed values; when the table or the line does not exist
\* the content is returned unchanged.
C18_ModifyLineReadBack ==
  [][(tmCall'.op = "modifyLine" /\ tmCall'.lineNo >= 0) =>
       LET blocks == documentToBlocks(doc)
           t      == tmCall'.tableIndex
           n      == tmCall'.lineNo
       IN IF hasTable(blocks, t) /\ n + 2 < Len(blocks[getTable(blocks, t)].lines)
          THEN /\ Len(doc') = Len(doc)
               /\ \A i \in 1..Len(doc) :
                    i # DocPosition(blocks, getTable(blocks, t), n + 2) => doc'[i] = doc[i]
               /\ readLine(doc', n, t) = SomeValues(Trimmed(tmCall'.values))
          ELSE doc' = doc]_vars

\* A text Number() reads as a number: blank, or an optional minus sign and
\* digits, blanks around it apart.
RECURSIVE AllDigits(_)
AllDigits(str) == str = <<>> \/ (Head(str) \in Digits /\ AllDigits(Tail(str)))
IsNumeric(raw) ==
  LET str == Trim(raw)
  IN \/ str = <<>>
     \/ (str # <<>> /\ AllDigits(str))
     \/ (Len(str) >= 2 /\ Head(str) = "-" /\ AllDigits(Tail(str)))

\* C21: the result of extractValue is null whenever the raw text of the cell
\* cannot be parsed as the declared type of its column, for number columns
\* as for date, datetime and time columns.
C21_UnparsableIsNull ==
  (rawCell # NoCall /\ extracted # NoCall) =>
    /\ (rawCell.type = "number" /\ ~IsNumeric(rawCell.raw)) => extracted = NullV
    /\ (rawCell.type \in {"date", "datetime", "time"}
          /\ ~(Len(rawCell.raw) = 1 /\ rawCell.raw[1] \in Digits)) => extracted = NullV

\* C22: a second run of the rows memo on the same table, configuration, view
\* state and on the state file as the first run left it yields the rows of
\* the first run, and leaves the state file as it is.
C22_SecondRunSame ==
  [][(pc["t1"] = "render" /\ pc'["t1"] = "effect") =>
       LET name  == basename[NoteOf("t1")]
           again == RowsMemo("t1", files'[name], filteringOf["t1"], MemoSearchTerm("t1"),
                             sortingOf["t1"], paginationOf["t1"])
       IN /\ ~again.threw
          /\ again.rows = rowsOf'["t1"]
          /\ again.total = totalOf'["t1"]
          /\ dirExists => ~again.updated]_vars

\* A run of the rows memo has created the state file with the entries of
\* both checkboxes and displays all three rows.
C22_RunCreatedEntries ==
  /\ pc["t1"] = "effect"
  /\ boxToggled = EmptyMap
  /\ files["N"].exists
  /\ DOMAIN files["N"].data = {"a", "b"}
  /\ Len(rowsOf["t1"]) = 3

\* C23: once two overlapping saveState calls for different checkbox ids of
\* one note have both completed, the stored JSON holds the value of each.
C23_BothSaved ==
  (\A k \in DOMAIN saveCalls : saveCalls[k].at = "done") =>
    \A k \in DOMAIN saveCalls :
      /\ saveCalls[k].checkboxId \in DOMAIN stateJson.data
      /\ stateJson.data[saveCalls[k].checkboxId] = saveCalls[k].checked

\* C24: a write of the queue that fails is logged and stops nothing: every
\* write queued for the file runs once the writes before it have settled,
\* failed or not, and no promise queueWrite returned is ever rejected.
C24_FailureIsLoggedOnly ==
  \A i \in 1..Len(links) :
    /\ links[i].outcome # "rejected"
    /\ links[i].outcome = "fulfilled" =>
         /\ links[i].ran
         /\ links[i].logged = links[i].throws
         /\ ~links[i].throws => links[i].key \in DOMAIN chainFile

\* A write failed and the write queued behind it reached the file.
C24_WriteAfterFailure ==
  /\ Len(links) >= 2
  /\ links[1].throws /\ links[1].outcome = "fulfilled" /\ links[1].logged
  /\ ~links[2].throws /\ links[2].outcome = "fulfilled"
  /\ links[2].key \in DOMAIN chainFile
  /\ chainFile[links[2].key] = links[2].val

\* C25: after page navigations, page size changes and filter or search
\* changes the page number lies in 1..max(1, ceil(total / pageSize)), and so
\* does every page button the view offers.
C25_PageInRange ==
  pager # NoCall =>
    LET maxPage == Max2(1, NumberOfPages(pager.total, pager.pageSize))
        shown == PagesMemo(pager.pageNumber, pager.pageSize, pager.total)
    IN /\ pager.pageNumber \in 1..maxPage
       /\ pager.total > pager.pageSize => \A i \in DOMAIN shown : shown[i] \in 1..maxPage

\* C26: an inline edit committed in the dynamic table changes lines of that
\* table only and leaves every other table of the document as it was, also
\* when a plain markdown table comes before the dynamic table.
C26_EditStaysInItsTable ==
  [][tmCall'.op = "edit" =>
       \A other \in {0, 1} \ {dynTableAt} :
         readTableLines(doc', other) = readTableLines(doc, other)]_vars

\* C27: the dynamic tables of one document are mounted under indices that
\* differ from table to table, and mounting a table removes the view of no
\* other table, also when hide-configuration has removed a configuration
\* block before a later table is processed.
C27_DistinctIndices ==
  [][/\ \A t, u \in DOMAIN indexOf' :
          (t # u /\ indexOf'[t] # <<>> /\ indexOf'[u] # <<>>) => indexOf'[t] # indexOf'[u]
     /\ \A u \in DOMAIN rootOf : rootOf[u] # <<>> => rootOf'[u] = rootOf[u]]_vars

\* C28: in the callout sync a toggled value is never replaced by the default
\* write of a render pass: once every queued write has completed and no pass
\* is in flight, the file holds the last toggled value of every toggled key.
C28_ToggleOutlivesDefaults ==
  (writeQueue = <<>> /\ pass.phase = "none") =>
    \A k \in DOMAIN toggled : k \in DOMAIN calloutFile /\ calloutFile[k] = toggled[k]

\* C29: after rows were inserted, removed or reordered in the source and the
\* pipeline has run again, a row carries the signal of a checkbox only when
\* it holds that checkbox: 'true' of the checked box a, 'false' of the
\* unchecked box b.
C29_SignalFollowsId ==
  ~memoStale =>
    \A p \in 1..Len(memoRows) :
      LET cell == sourceRows[memoRows[p].index + 1][1]
          v    == memoRows[p].vals["Ok"]
      IN v.t = "str" =>
           /\ Includes(v.s, STrue) => cell.cb = "a"
           /\ Includes(v.s, SFalse) => cell.cb = "b"

\* C30: a table configured with a page size and without page-sizes is
\* offered the default options 25, 50 and 100 plus its own page size and
\* nothing else, whichever tables were mounted before it.
C30_DefaultsPlusOwnSize ==
  \A i \in 1..Len(mountedPages) :
    mountedPages[i].configuration.hasSize =>
      {mountedPages[i].pagination.pageSizes[j] :
         j \in 1..Len(mountedPages[i].pagination.pageSizes)}
        = {DEFAULT_PAGES_SIZE_OPTIONS[j] : j \in 1..Len(DEFAULT_PAGES_SIZE_OPTIONS)}
            \cup {mountedPages[i].configuration.size}
====
